---------------------------- MODULE Spec2Model ----------------------------
(***************************************************************************)
(* A model of the backtester's simulation kernel: the execution engine,   *)
(* the order manager and the portfolio ledger.                            *)
(*                                                                         *)
(* Money and prices are exact rationals <<n, d>> (d > 0, lowest terms);   *)
(* prices are counted in ticks, so round_to_tick rounds to an integer.    *)
(* Timestamps are naturals; the calendar date of t is t \div DayLen.      *)
(* An optional value is None (the empty tuple) or Some(x) (<<x>>).        *)
(***************************************************************************)
EXTENDS Integers, Sequences, FiniteSets, TLC

(*************************** bounds of the model ***************************)
MaxPrice == 2
MaxQty == 2
MaxOrders == 2
MaxTime == 2
DayLen == 2
MaxBars == 3
MaxFills == 3
MaxFillQty == 3

(***************************** exact arithmetic ****************************)
Abs(x) == IF x < 0 THEN -x ELSE x

RECURSIVE GCD(_, _)
GCD(a, b) == IF b = 0 THEN a ELSE GCD(b, a % b)

\* the rational n/d in lowest terms with a positive denominator
Norm(n, d) ==
    LET g == GCD(Abs(n), Abs(d))
        s == IF d < 0 THEN -1 ELSE 1
    IN  <<(s * n) \div g, (s * d) \div g>>

R(n) == <<n, 1>>
RAdd(a, b) == Norm(a[1] * b[2] + b[1] * a[2], a[2] * b[2])
RNeg(a) == <<-a[1], a[2]>>
RSub(a, b) == RAdd(a, RNeg(b))
RMul(a, b) == Norm(a[1] * b[1], a[2] * b[2])
RDiv(a, b) == Norm(a[1] * b[2], a[2] * b[1])
RLt(a, b) == a[1] * b[2] < b[1] * a[2]
RLe(a, b) == a[1] * b[2] <= b[1] * a[2]
RAbs(a) == <<Abs(a[1]), a[2]>>
RFloor(a) == a[1] \div a[2]

\* Python's round(): to the nearest integer, a tie to the even one
PyRound(a) ==
    LET f == RFloor(a)
        twice == 2 * (a[1] - f * a[2])
    IN  IF twice < a[2] THEN f
        ELSE IF twice > a[2] THEN f + 1
        ELSE IF f % 2 = 0 THEN f ELSE f + 1

Min(a, b) == IF a <= b THEN a ELSE b
Max(a, b) == IF a >= b THEN a ELSE b

None == <<>>
Some(x) == <<x>>
Val(o) == o[1]

(******************************** data model *******************************)
Symbols == {"A", "B"}
Sides == {"BUY", "SELL"}
OrderTypes == {"MARKET", "LIMIT", "STOP", "STOP_LIMIT"}
Prices == 1..MaxPrice
Times == 0..MaxTime

Date(ts) == ts \div DayLen

\* Bar.__post_init__: high and low are widened to contain the other fields
Bar(ts, sym, o, h, l, c) ==
    LET hi == IF h < Max(Max(o, c), l) THEN Max(Max(Max(o, c), l), h) ELSE h
        lo == IF l > Min(Min(o, c), hi) THEN Min(Min(Min(o, c), hi), l) ELSE l
    IN  [timestamp |-> ts, symbol |-> sym, price |-> c,
         open |-> o, high |-> hi, low |-> lo, close |-> c]

Order_is_active(o) == o.status \in {"PENDING", "SUBMITTED", "PARTIAL"}
Order_is_complete(o) == o.status \in {"FILLED", "CANCELLED", "REJECTED"}
Order_remaining_quantity(o) == o.quantity - o.filled_quantity

Fill_gross_value(f) == RMul(R(f.quantity), f.price)
Fill_net_value(f) == RAdd(Fill_gross_value(f), f.commission)

(***************************** state variables *****************************)
VARIABLES
    \* ExecutionEngine, and the last pricing call made on it with its result
    slippage_bps, commission_bps, use_first_touch, pricing,
    \* OrderManager: the Order objects by order_id, and the containers of ids
    orders, active_orders, completed_orders, all_orders, fills, fill_sequences,
    \* Portfolio
    initial_cash, track_daily_pnl, square_off_eod,
    cash, positions, realized_pnl, unrealized_pnl, total_commission, num_trades,
    current_day, daily_pnl, daily_starting_value, previous_day_value,
    daily_pnl_history, daily_return_history, snapshots, current_prices,
    \* the driver: the clock, the position in the bar loop, the fills of the
    \* current bar not yet applied (indices into fills), and the last call made
    now, phase, pending, lastOp,
    \* SignalManager
    dedupe_window_seconds, signal_queue, all_signals, recent_signals,
    \* RiskManager: its limits, and the last sizing call with its result
    max_position_pct, max_portfolio_leverage, max_positions, sizing,
    \* RiskManager: its sizing configuration, and the last call of
    \* calculate_position_size with its result
    min_position_size, sizing_method, target_vol, desired,
    \* BacktestEngine: the strategy set, the day of the run loop, its own list
    \* of snapshots, and the record of what its calls did: the day events
    \* fired, the signals handed to order creation and the fills applied to
    \* the portfolio by the last on_bar, and the exception the last call raised
    strategy, engine_current_date, engine_snapshots, events, released, applied, raised

exVars == <<slippage_bps, commission_bps, use_first_touch, pricing>>
omVars == <<orders, active_orders, completed_orders, all_orders, fills, fill_sequences>>
pfConf == <<initial_cash, track_daily_pnl, square_off_eod>>
pfVars == <<cash, positions, realized_pnl, unrealized_pnl, total_commission, num_trades,
            current_day, daily_pnl, daily_starting_value, previous_day_value,
            daily_pnl_history, daily_return_history, snapshots, current_prices>>
drVars == <<now, phase, pending>>
smVars == <<dedupe_window_seconds, signal_queue, all_signals, recent_signals>>
rmVars == <<max_position_pct, max_portfolio_leverage, max_positions, sizing,
            min_position_size, sizing_method, target_vol, desired>>
enVars == <<strategy, engine_current_date, engine_snapshots, events, released, applied, raised>>
vars == <<exVars, omVars, pfConf, pfVars, drVars, lastOp, smVars, rmVars, enVars>>

(***************************** execution engine ****************************)
calculate_slippage(price, bps, side) ==
    IF side = "BUY"
    THEN RMul(price, RAdd(R(1), Norm(bps, 10000)))
    ELSE RMul(price, RSub(R(1), Norm(bps, 10000)))

calculate_commission(quantity, price, bps) ==
    RAbs(RMul(RMul(R(Abs(quantity)), price), Norm(bps, 10000)))

\* prices are in ticks: the nearest multiple of the tick is the nearest integer
round_to_tick(price) == R(PyRound(price))

market_order_price(first_touch, order, bar) ==
    IF first_touch THEN Some(bar.open) ELSE Some(bar.close)

\* mutant of limit_order_price: a limit touched exactly does not fill
limit_order_price_strict(first_touch, order, bar) ==
    IF order.limit_price = None THEN None
    ELSE LET limit == Val(order.limit_price) IN
         IF order.side = "BUY"
         THEN IF bar.low < limit
              THEN IF first_touch
                   THEN (IF bar.open <= limit THEN Some(Min(limit, bar.open)) ELSE Some(limit))
                   ELSE (IF bar.close <= limit THEN Some(Min(limit, bar.close)) ELSE None)
              ELSE None
         ELSE IF bar.high > limit
              THEN IF first_touch
                   THEN (IF bar.open >= limit THEN Some(Max(limit, bar.open)) ELSE Some(limit))
                   ELSE (IF bar.close >= limit THEN Some(Max(limit, bar.close)) ELSE None)
              ELSE None

limit_order_price(first_touch, order, bar) ==
    IF order.limit_price = None THEN None
    ELSE LET limit == Val(order.limit_price) IN
         IF order.side = "BUY"
         THEN IF bar.low <= limit
              THEN IF first_touch
                   THEN (IF bar.open <= limit THEN Some(Min(limit, bar.open)) ELSE Some(limit))
                   ELSE (IF bar.close <= limit THEN Some(Min(limit, bar.close)) ELSE None)
              ELSE None
         ELSE IF bar.high >= limit
              THEN IF first_touch
                   THEN (IF bar.open >= limit THEN Some(Max(limit, bar.open)) ELSE Some(limit))
                   ELSE (IF bar.close >= limit THEN Some(Max(limit, bar.close)) ELSE None)
              ELSE None

\* mutant of stop_order_price: a touched stop fills at the stop, gap or not
stop_order_price_at_stop(order, bar) ==
    IF order.stop_price = None THEN None
    ELSE LET stop == Val(order.stop_price) IN
         IF order.side = "BUY"
         THEN (IF bar.high >= stop THEN Some(stop) ELSE None)
         ELSE (IF bar.low <= stop THEN Some(stop) ELSE None)

stop_order_price(order, bar) ==
    IF order.stop_price = None THEN None
    ELSE LET stop == Val(order.stop_price) IN
         IF order.side = "BUY"
         THEN (IF bar.high >= stop THEN Some(Max(stop, bar.open)) ELSE None)
         ELSE (IF bar.low <= stop THEN Some(Min(stop, bar.open)) ELSE None)

stop_limit_order_price(first_touch, order, bar) ==
    IF order.stop_price = None \/ order.limit_price = None THEN None
    ELSE LET stop == Val(order.stop_price)
             stop_triggered == IF order.side = "BUY" THEN bar.high >= stop
                                                     ELSE bar.low <= stop
         IN  IF ~stop_triggered THEN None
             ELSE limit_order_price(first_touch, order, bar)

\* mutant of determine_execution_price: a STOP_LIMIT order is priced as a STOP
\* order, its limit ignored
determine_execution_price_stop_limit_as_stop(first_touch, order, bar) ==
    CASE order.order_type = "MARKET" -> market_order_price(first_touch, order, bar)
      [] order.order_type = "LIMIT" -> limit_order_price(first_touch, order, bar)
      [] order.order_type = "STOP" -> stop_order_price(order, bar)
      [] order.order_type = "STOP_LIMIT" -> stop_order_price(order, bar)
      [] OTHER -> None

determine_execution_price(first_touch, order, bar) ==
    CASE order.order_type = "MARKET" -> market_order_price(first_touch, order, bar)
      [] order.order_type = "LIMIT" -> limit_order_price(first_touch, order, bar)
      [] order.order_type = "STOP" -> stop_order_price(order, bar)
      [] order.order_type = "STOP_LIMIT" -> stop_limit_order_price(first_touch, order, bar)
      [] OTHER -> None

\* mutant of fill_quantity: at most one unit is filled per bar
fill_quantity_one_unit(order) == Min(Order_remaining_quantity(order), 1)

\* the quantity of a fill: the whole remaining quantity of the order
fill_quantity(order) == Order_remaining_quantity(order)

\* ExecutionEngine.simulate_fill: Some(fill) or None
simulate_fill(ex, order, bar, fill_sequence) ==
    IF ~Order_is_active(order) THEN None
    ELSE IF order.symbol # bar.symbol THEN None
    ELSE LET ep == determine_execution_price(ex.use_first_touch, order, bar) IN
         IF ep = None THEN None
         ELSE LET fill_price == round_to_tick(
                                  calculate_slippage(R(Val(ep)), ex.slippage_bps, order.side))
                  qty == fill_quantity(order)
              IN  Some([fill_id |-> <<order.order_id, fill_sequence>>,
                        order_id |-> order.order_id,
                        timestamp |-> bar.timestamp,
                        symbol |-> order.symbol,
                        side |-> order.side,
                        quantity |-> qty,
                        price |-> fill_price,
                        commission |-> calculate_commission(qty, fill_price, ex.commission_bps),
                        realized_pnl |-> R(0),
                        execution_price |-> R(Val(ep))])

\* ExecutionEngine.check_stop_loss_hit: (is_hit, execution_price)
check_stop_loss_hit(position_side, stop_loss, bar) ==
    IF position_side \in {"LONG", "BUY"}
    THEN (IF bar.low <= stop_loss
          THEN [is_hit |-> TRUE, price |-> Some(Min(stop_loss, bar.open))]
          ELSE [is_hit |-> FALSE, price |-> None])
    ELSE IF position_side \in {"SHORT", "SELL"}
    THEN (IF bar.high >= stop_loss
          THEN [is_hit |-> TRUE, price |-> Some(Max(stop_loss, bar.open))]
          ELSE [is_hit |-> FALSE, price |-> None])
    ELSE [is_hit |-> FALSE, price |-> None]

\* ExecutionEngine.check_take_profit_hit: (is_hit, execution_price)
check_take_profit_hit(position_side, take_profit, bar) ==
    IF position_side \in {"LONG", "BUY"}
    THEN (IF bar.high >= take_profit
          THEN [is_hit |-> TRUE, price |-> Some(Max(take_profit, bar.open))]
          ELSE [is_hit |-> FALSE, price |-> None])
    ELSE IF position_side \in {"SHORT", "SELL"}
    THEN (IF bar.low <= take_profit
          THEN [is_hit |-> TRUE, price |-> Some(Min(take_profit, bar.open))]
          ELSE [is_hit |-> FALSE, price |-> None])
    ELSE [is_hit |-> FALSE, price |-> None]

\* mutant of resolve_tp_sl_tie: the stop-loss always wins a tie
resolve_tp_sl_tie_always_sl(position_side, stop_loss, take_profit, bar) ==
    LET sl == check_stop_loss_hit(position_side, stop_loss, bar)
        tp == check_take_profit_hit(position_side, take_profit, bar)
    IN  IF sl.is_hit THEN [which |-> "SL", price |-> sl.price]
        ELSE IF tp.is_hit THEN [which |-> "TP", price |-> tp.price]
        ELSE [which |-> "NONE", price |-> Some(0)]

\* ExecutionEngine.resolve_tp_sl_tie: ("SL" or "TP" or "NONE", execution_price)
resolve_tp_sl_tie(position_side, stop_loss, take_profit, bar) ==
    LET sl == check_stop_loss_hit(position_side, stop_loss, bar)
        tp == check_take_profit_hit(position_side, take_profit, bar)
    IN  IF sl.is_hit /\ tp.is_hit
        THEN IF position_side \in {"LONG", "BUY"}
             THEN (IF bar.close > bar.open THEN [which |-> "TP", price |-> tp.price]
                                           ELSE [which |-> "SL", price |-> sl.price])
             ELSE (IF bar.close < bar.open THEN [which |-> "TP", price |-> tp.price]
                                           ELSE [which |-> "SL", price |-> sl.price])
        ELSE IF sl.is_hit THEN [which |-> "SL", price |-> sl.price]
        ELSE IF tp.is_hit THEN [which |-> "TP", price |-> tp.price]
        ELSE [which |-> "NONE", price |-> Some(0)]

(****************************** order manager ******************************)
ExConf == [slippage_bps |-> slippage_bps, commission_bps |-> commission_bps,
           use_first_touch |-> use_first_touch]

\* remove one id from a container of ids, keeping the order of the others
Without(ids, id) == SelectSeq(ids, LAMBDA x : x # id)
Range(s) == {s[i] : i \in DOMAIN s}

\* Order(...) as OrderManager.submit_order builds it
NewOrder(order_id, symbol, side, quantity, order_type, limit_price, stop_price, timestamp) ==
    [order_id |-> order_id, timestamp |-> timestamp, symbol |-> symbol, side |-> side,
     order_type |-> order_type, quantity |-> quantity, status |-> "SUBMITTED",
     limit_price |-> limit_price, stop_price |-> stop_price,
     filled_quantity |-> 0, avg_fill_price |-> R(0),
     submitted_at |-> Some(timestamp), filled_at |-> None]

\* OrderManager.submit_order
submit_order(order_id, symbol, side, quantity, order_type, limit_price, stop_price, timestamp) ==
    /\ orders' = orders @@ (order_id :> NewOrder(order_id, symbol, side, quantity,
                                                 order_type, limit_price, stop_price, timestamp))
    /\ active_orders' = Append(active_orders, order_id)
    /\ all_orders' = Append(all_orders, order_id)
    /\ fill_sequences' = fill_sequences @@ (order_id :> 0)
    /\ UNCHANGED <<completed_orders, fills>>

\* mutant of cancel_order_result: any known order can be cancelled
cancel_order_result_known(order_id) == order_id \in DOMAIN orders

\* OrderManager.cancel_order: the value returned
cancel_order_result(order_id) ==
    IF order_id \notin Range(active_orders) THEN FALSE
    ELSE IF ~Order_is_active(orders[order_id]) THEN FALSE
    ELSE TRUE

\* mutant of cancel_order: the cancelled order is not deleted from the active container
cancel_order_keeps_active(order_id) ==
    IF order_id \in Range(active_orders) /\ Order_is_active(orders[order_id])
    THEN /\ orders' = [orders EXCEPT ![order_id].status = "CANCELLED"]
         /\ completed_orders' = Append(completed_orders, order_id)
         /\ UNCHANGED <<active_orders, all_orders, fills, fill_sequences>>
    ELSE UNCHANGED omVars

\* OrderManager.cancel_order
cancel_order(order_id) ==
    IF cancel_order_result(order_id)
    THEN /\ orders' = [orders EXCEPT ![order_id].status = "CANCELLED"]
         /\ completed_orders' = Append(completed_orders, order_id)
         /\ active_orders' = Without(active_orders, order_id)
         /\ UNCHANGED <<all_orders, fills, fill_sequences>>
    ELSE UNCHANGED omVars

\* mutant of status_after_fill: > for >= in the test for a complete fill
status_after_fill_strict(status, filled_quantity, quantity) ==
    IF filled_quantity > quantity THEN "FILLED"
    ELSE IF filled_quantity > 0 THEN "PARTIAL"
    ELSE status

\* the status _apply_fill_to_order gives an order with this much filled
status_after_fill(status, filled_quantity, quantity) ==
    IF filled_quantity >= quantity THEN "FILLED"
    ELSE IF filled_quantity > 0 THEN "PARTIAL"
    ELSE status

\* OrderManager._apply_fill_to_order
apply_fill_to_order(order, fill) ==
    LET total_filled == order.filled_quantity + fill.quantity
        avg == IF total_filled > 0
               THEN RDiv(RAdd(RMul(order.avg_fill_price, R(total_filled - fill.quantity)),
                              RMul(fill.price, R(fill.quantity))),
                         R(total_filled))
               ELSE fill.price
        st == status_after_fill(order.status, total_filled, order.quantity)
    IN  [order EXCEPT !.filled_quantity = total_filled,
                      !.avg_fill_price = avg,
                      !.status = st,
                      !.filled_at = IF total_filled >= order.quantity
                                    THEN Some(fill.timestamp) ELSE @]

\* the loop of OrderManager.process_bar over the active orders, in dict order
RECURSIVE process_bar_loop(_, _, _, _)
process_bar_loop(ids, bar, ex, st) ==
    IF ids = <<>> THEN st
    ELSE LET id == Head(ids)
             order == st.orders[id]
             f == simulate_fill(ex, order, bar, st.fill_sequences[id])
         IN  IF order.symbol # bar.symbol \/ f = None
             THEN process_bar_loop(Tail(ids), bar, ex, st)
             ELSE LET o2 == apply_fill_to_order(order, Val(f)) IN
                  process_bar_loop(Tail(ids), bar, ex,
                      [orders |-> [st.orders EXCEPT ![id] = o2],
                       fill_sequences |-> [st.fill_sequences EXCEPT ![id] = @ + 1],
                       fills |-> Append(st.fills, Val(f)),
                       ret |-> Append(st.ret, Len(st.fills) + 1),
                       orders_to_complete |->
                           IF Order_is_complete(o2)
                           THEN Append(st.orders_to_complete, id)
                           ELSE st.orders_to_complete])

\* mutant of process_bar_result: the active orders are visited last submitted first
process_bar_result_reversed(bar) ==
    process_bar_loop([i \in 1..Len(active_orders) |->
                          active_orders[Len(active_orders) + 1 - i]], bar, ExConf,
                     [orders |-> orders, fill_sequences |-> fill_sequences, fills |-> fills,
                      ret |-> <<>>, orders_to_complete |-> <<>>])

process_bar_result(bar) ==
    process_bar_loop(active_orders, bar, ExConf,
                     [orders |-> orders, fill_sequences |-> fill_sequences, fills |-> fills,
                      ret |-> <<>>, orders_to_complete |-> <<>>])

\* mutant of process_bar: the orders a bar completes are added to the
\* completed container but stay in the active one
process_bar_keeps_completed_active(bar) ==
    LET st == process_bar_result(bar)
        moved == st.orders_to_complete
    IN  /\ orders' = st.orders
        /\ fill_sequences' = st.fill_sequences
        /\ fills' = st.fills
        /\ completed_orders' = completed_orders \o moved
        /\ UNCHANGED <<active_orders, all_orders>>

\* OrderManager.process_bar; the fills returned are fills[i] for i in the result's ret
process_bar(bar) ==
    LET st == process_bar_result(bar)
        moved == st.orders_to_complete
    IN  /\ orders' = st.orders
        /\ fill_sequences' = st.fill_sequences
        /\ fills' = st.fills
        /\ completed_orders' = completed_orders \o moved
        /\ active_orders' = SelectSeq(active_orders, LAMBDA x : x \notin Range(moved))
        /\ UNCHANGED all_orders

(******************************** portfolio ********************************)
\* the Portfolio object as a record of its fields
PF == [cash |-> cash, positions |-> positions, realized_pnl |-> realized_pnl,
       unrealized_pnl |-> unrealized_pnl, total_commission |-> total_commission,
       num_trades |-> num_trades, current_day |-> current_day, daily_pnl |-> daily_pnl,
       daily_starting_value |-> daily_starting_value,
       previous_day_value |-> previous_day_value,
       daily_pnl_history |-> daily_pnl_history,
       daily_return_history |-> daily_return_history,
       snapshots |-> snapshots, current_prices |-> current_prices,
       initial_cash |-> initial_cash, track_daily_pnl |-> track_daily_pnl,
       square_off_eod |-> square_off_eod]

\* the assignment of a Portfolio record to the Portfolio variables
SetPF(p) ==
    /\ cash' = p.cash
    /\ positions' = p.positions
    /\ realized_pnl' = p.realized_pnl
    /\ unrealized_pnl' = p.unrealized_pnl
    /\ total_commission' = p.total_commission
    /\ num_trades' = p.num_trades
    /\ current_day' = p.current_day
    /\ daily_pnl' = p.daily_pnl
    /\ daily_starting_value' = p.daily_starting_value
    /\ previous_day_value' = p.previous_day_value
    /\ daily_pnl_history' = p.daily_pnl_history
    /\ daily_return_history' = p.daily_return_history
    /\ snapshots' = p.snapshots
    /\ current_prices' = p.current_prices

\* d[k] = v on a dict
Put(d, k, v) == [x \in DOMAIN d \cup {k} |-> IF x = k THEN v ELSE d[x]]

calculate_pnl(entry_price, exit_price, quantity) ==
    RMul(RSub(exit_price, entry_price), R(quantity))

NewPosition(symbol, ts) ==
    [symbol |-> symbol, quantity |-> 0, avg_price |-> R(0), realized_pnl |-> R(0),
     unrealized_pnl |-> R(0), total_commission |-> R(0),
     opened_at |-> Some(ts), last_updated |-> Some(ts)]

\* Position.update_unrealized_pnl
update_unrealized_pnl(position, current_price) ==
    IF position.quantity # 0
    THEN [position EXCEPT !.unrealized_pnl =
              RMul(RSub(current_price, position.avg_price), R(position.quantity))]
    ELSE position

get_total_value(p) == RAdd(p.cash, p.unrealized_pnl)

\* the symbols of a dict in some fixed order
RECURSIVE Keys(_)
Keys(S) == IF S = {} THEN <<>>
           ELSE LET k == CHOOSE x \in S : TRUE IN <<k>> \o Keys(S \ {k})

\* Portfolio._square_off_all_positions: the loop over the positions
RECURSIVE square_off_loop(_, _)
square_off_loop(p, syms) ==
    IF syms = <<>> THEN p
    ELSE LET symbol == Head(syms)
             position == p.positions[symbol]
         IN  IF position.quantity # 0
             THEN LET close_price == IF symbol \in DOMAIN p.current_prices
                                     THEN p.current_prices[symbol]
                                     ELSE position.avg_price
                      pnl == calculate_pnl(position.avg_price, close_price, position.quantity)
                      value == RMul(R(Abs(position.quantity)), close_price)
                  IN  square_off_loop(
                        [p EXCEPT !.realized_pnl = RAdd(@, pnl),
                                  !.daily_pnl = RAdd(@, pnl),
                                  !.cash = IF position.quantity > 0 THEN RAdd(@, value)
                                                                    ELSE RSub(@, value),
                                  !.positions[symbol].quantity = 0,
                                  !.positions[symbol].avg_price = R(0)],
                        Tail(syms))
             ELSE square_off_loop(p, Tail(syms))

\* mutant of square_off_all_positions: the square-off counts as a trade
square_off_all_positions_as_trade(p, ts) ==
    [square_off_loop(p, Keys(DOMAIN p.positions)) EXCEPT !.num_trades = @ + 1]

\* Portfolio._square_off_all_positions
square_off_all_positions(p, ts) == square_off_loop(p, Keys(DOMAIN p.positions))

\* Portfolio._check_new_day
check_new_day(p, ts) ==
    LET current_date == Date(ts) IN
    IF p.current_day = None
    THEN [p EXCEPT !.current_day = Some(current_date),
                   !.daily_starting_value = get_total_value(p)]
    ELSE IF current_date # Val(p.current_day)
    THEN LET end_of_day_value == get_total_value(p)
             daily_return == IF RLt(R(0), p.daily_starting_value)
                             THEN RDiv(p.daily_pnl, p.daily_starting_value)
                             ELSE R(0)
             p1 == [p EXCEPT !.daily_pnl_history = Put(@, Val(p.current_day), p.daily_pnl),
                             !.daily_return_history = Put(@, Val(p.current_day), daily_return)]
             p2 == IF p.square_off_eod THEN square_off_all_positions(p1, ts) ELSE p1
         IN  [p2 EXCEPT !.current_day = Some(current_date),
                        !.previous_day_value = end_of_day_value,
                        !.daily_starting_value = end_of_day_value,
                        !.daily_pnl = R(0)]
    ELSE p

\* mutant of update_position: a position closed to quantity 0 keeps its avg_price
update_position_keeping_avg_price(position, fill) ==
    LET old_quantity == position.quantity
        new_quantity == IF fill.side = "BUY" THEN old_quantity + fill.quantity
                                             ELSE old_quantity - fill.quantity
        moved ==
            IF new_quantity = 0
            THEN [position EXCEPT !.quantity = 0]
            ELSE IF (old_quantity > 0 /\ new_quantity > 0) \/ (old_quantity < 0 /\ new_quantity < 0)
            THEN LET old_value == RMul(R(Abs(old_quantity)), position.avg_price)
                     new_value == RMul(R(fill.quantity), fill.price)
                 IN  [position EXCEPT !.avg_price = RDiv(RAdd(old_value, new_value),
                                                         R(Abs(new_quantity))),
                                      !.quantity = new_quantity]
            ELSE IF Abs(new_quantity) < Abs(old_quantity)
            THEN [position EXCEPT !.quantity = new_quantity]
            ELSE [position EXCEPT !.quantity = new_quantity,
                                  !.avg_price = fill.price,
                                  !.opened_at = Some(fill.timestamp)]
    IN  [moved EXCEPT !.last_updated = Some(fill.timestamp),
                      !.total_commission = RAdd(@, fill.commission)]

\* Portfolio._update_position
update_position(position, fill) ==
    LET old_quantity == position.quantity
        new_quantity == IF fill.side = "BUY" THEN old_quantity + fill.quantity
                                             ELSE old_quantity - fill.quantity
        moved ==
            IF new_quantity = 0
            THEN [position EXCEPT !.quantity = 0, !.avg_price = R(0)]
            ELSE IF (old_quantity > 0 /\ new_quantity > 0) \/ (old_quantity < 0 /\ new_quantity < 0)
            THEN LET old_value == RMul(R(Abs(old_quantity)), position.avg_price)
                     new_value == RMul(R(fill.quantity), fill.price)
                 IN  [position EXCEPT !.avg_price = RDiv(RAdd(old_value, new_value),
                                                         R(Abs(new_quantity))),
                                      !.quantity = new_quantity]
            ELSE IF Abs(new_quantity) < Abs(old_quantity)
            THEN [position EXCEPT !.quantity = new_quantity]
            ELSE [position EXCEPT !.quantity = new_quantity,
                                  !.avg_price = fill.price,
                                  !.opened_at = Some(fill.timestamp)]
    IN  [moved EXCEPT !.last_updated = Some(fill.timestamp),
                      !.total_commission = RAdd(@, fill.commission)]

\* mutant of fill_realized_pnl: the whole fill realizes P&L, also the part of
\* it that opens the reversed position
fill_realized_pnl_on_whole_fill(position, fill) ==
    IF position.quantity # 0
       /\ ((position.quantity > 0 /\ fill.side = "SELL")
           \/ (position.quantity < 0 /\ fill.side = "BUY"))
    THEN calculate_pnl(position.avg_price, fill.price,
                       IF position.quantity > 0 THEN Abs(fill.quantity)
                                                ELSE -Abs(fill.quantity))
    ELSE R(0)

\* the realized P&L apply_fill computes for a fill against a position
fill_realized_pnl(position, fill) ==
    IF position.quantity # 0
       /\ ((position.quantity > 0 /\ fill.side = "SELL")
           \/ (position.quantity < 0 /\ fill.side = "BUY"))
    THEN LET close_quantity == Min(Abs(fill.quantity), Abs(position.quantity)) IN
         calculate_pnl(position.avg_price, fill.price,
                       IF position.quantity > 0 THEN close_quantity ELSE -close_quantity)
    ELSE R(0)

\* Portfolio.apply_fill up to the position row: the price cache, the day check
\* and the creation of the row; current_price is None or Some
apply_fill_prepare(p, fill, current_price) ==
    LET symbol == fill.symbol
        mark == IF current_price = None THEN fill.price ELSE Val(current_price)
        p1 == [p EXCEPT !.current_prices = Put(@, symbol, mark)]
        p2 == IF p.track_daily_pnl THEN check_new_day(p1, fill.timestamp) ELSE p1
    IN  IF symbol \notin DOMAIN p2.positions
        THEN [p2 EXCEPT !.positions = Put(@, symbol, NewPosition(symbol, fill.timestamp))]
        ELSE p2

\* fill.realized_pnl as apply_fill stores it back into the Fill
applied_realized_pnl(p, fill, current_price) ==
    fill_realized_pnl(apply_fill_prepare(p, fill, current_price).positions[fill.symbol], fill)

\* the cash after apply_fill's cash update
cash_after_fill(c, fill) ==
    IF fill.side = "BUY" THEN RSub(c, Fill_net_value(fill))
                         ELSE RAdd(c, Fill_net_value(fill))

\* Portfolio.apply_fill: the Portfolio after the call
apply_fill(p, fill, current_price) ==
    LET symbol == fill.symbol
        p3 == apply_fill_prepare(p, fill, current_price)
        position == p3.positions[symbol]
        pnl == fill_realized_pnl(position, fill)
    IN  [p3 EXCEPT !.positions[symbol] = update_position(position, fill),
                   !.cash = cash_after_fill(@, fill),
                   !.realized_pnl = RAdd(@, pnl),
                   !.total_commission = RAdd(@, fill.commission),
                   !.num_trades = @ + 1,
                   !.daily_pnl = IF p.track_daily_pnl
                                 THEN RAdd(@, RSub(pnl, fill.commission)) ELSE @]

\* the sum of f[k] over the keys of a dict of rationals
RECURSIVE SumOver(_, _)
SumOver(f, S) == IF S = {} THEN R(0)
                 ELSE LET k == CHOOSE x \in S : TRUE IN RAdd(f[k], SumOver(f, S \ {k}))

\* Portfolio.update_market_prices
update_market_prices(p, prices) ==
    LET cp == [x \in DOMAIN p.current_prices \cup DOMAIN prices |->
                  IF x \in DOMAIN prices THEN prices[x] ELSE p.current_prices[x]]
        marked(sym) == p.positions[sym].quantity # 0 /\ sym \in DOMAIN cp
        pos == [sym \in DOMAIN p.positions |->
                  IF marked(sym) THEN update_unrealized_pnl(p.positions[sym], cp[sym])
                  ELSE p.positions[sym]]
    IN  [p EXCEPT !.current_prices = cp,
                  !.positions = pos,
                  !.unrealized_pnl =
                      SumOver([sym \in DOMAIN pos |-> pos[sym].unrealized_pnl],
                              {sym \in DOMAIN pos : marked(sym)})]

\* mutant of update_from_bar: the marked P&L is booked into daily_pnl
update_from_bar_booking_daily_pnl(p, bar) ==
    LET pos == [sym \in DOMAIN p.positions |->
                  IF sym = bar.symbol
                  THEN update_unrealized_pnl(p.positions[sym], R(bar.close))
                  ELSE p.positions[sym]]
        total == SumOver([sym \in DOMAIN pos |-> pos[sym].unrealized_pnl],
                         {sym \in DOMAIN pos : pos[sym].quantity # 0})
    IN  [p EXCEPT !.current_prices = Put(@, bar.symbol, R(bar.close)),
                  !.positions = pos,
                  !.unrealized_pnl = total,
                  !.daily_pnl = RAdd(@, total)]

\* Portfolio.update_from_bar
update_from_bar(p, bar) ==
    LET pos == [sym \in DOMAIN p.positions |->
                  IF sym = bar.symbol
                  THEN update_unrealized_pnl(p.positions[sym], R(bar.close))
                  ELSE p.positions[sym]]
    IN  [p EXCEPT !.current_prices = Put(@, bar.symbol, R(bar.close)),
                  !.positions = pos,
                  !.unrealized_pnl =
                      SumOver([sym \in DOMAIN pos |-> pos[sym].unrealized_pnl],
                              {sym \in DOMAIN pos : pos[sym].quantity # 0})]

\* the total_value create_snapshot records
snapshot_total_value(p) == RAdd(p.cash, p.unrealized_pnl)

\* mutant of create_snapshot: the snapshot holds the live positions dict, not
\* a copy of it, so every snapshot taken shows the positions of the moment
create_snapshot_sharing_positions(p, ts) ==
    LET total_value == snapshot_total_value(p)
        daily_return == IF RLt(R(0), p.previous_day_value)
                        THEN RDiv(RSub(total_value, p.previous_day_value),
                                  p.previous_day_value)
                        ELSE R(0)
        snapshot == [timestamp |-> ts, cash |-> p.cash, positions |-> p.positions,
                     total_value |-> total_value, realized_pnl |-> p.realized_pnl,
                     unrealized_pnl |-> p.unrealized_pnl, daily_pnl |-> p.daily_pnl,
                     daily_return |-> daily_return,
                     total_commission |-> p.total_commission,
                     num_trades |-> p.num_trades, starting_cash |-> p.initial_cash,
                     previous_day_value |-> p.previous_day_value]
        shared == [i \in DOMAIN p.snapshots |->
                      [p.snapshots[i] EXCEPT !.positions = p.positions]]
    IN  [p EXCEPT !.snapshots = Append(shared, snapshot)]

\* Portfolio.create_snapshot
create_snapshot(p, ts) ==
    LET total_value == snapshot_total_value(p)
        daily_return == IF RLt(R(0), p.previous_day_value)
                        THEN RDiv(RSub(total_value, p.previous_day_value),
                                  p.previous_day_value)
                        ELSE R(0)
        snapshot == [timestamp |-> ts, cash |-> p.cash, positions |-> p.positions,
                     total_value |-> total_value, realized_pnl |-> p.realized_pnl,
                     unrealized_pnl |-> p.unrealized_pnl, daily_pnl |-> p.daily_pnl,
                     daily_return |-> daily_return,
                     total_commission |-> p.total_commission,
                     num_trades |-> p.num_trades, starting_cash |-> p.initial_cash,
                     previous_day_value |-> p.previous_day_value]
    IN  [p EXCEPT !.snapshots = Append(@, snapshot)]

(****************************** signal manager *****************************)
\* the SignalManager as a value; recent_signals is the set of the keys
\* (symbol, side, timestamp) of the dict
SM == [dedupe_window_seconds |-> dedupe_window_seconds, signal_queue |-> signal_queue,
       all_signals |-> all_signals, recent_signals |-> recent_signals]

SetSM(m) ==
    /\ dedupe_window_seconds' = m.dedupe_window_seconds
    /\ signal_queue' = m.signal_queue
    /\ all_signals' = m.all_signals
    /\ recent_signals' = m.recent_signals

Signal(id, ts, sym, side, size) ==
    [signal_id |-> id, timestamp |-> ts, symbol |-> sym, side |-> side, size |-> size]

SignalKey(signal) == <<signal.symbol, signal.side, signal.timestamp>>

\* _is_duplicate, "Clean old entries": the keys older than the cutoff are deleted
clean_old_entries(recent, signal, window) ==
    LET cutoff_time == signal.timestamp - window
    IN  {key \in recent : ~(key[3] < cutoff_time)}

\* _is_duplicate: the value returned (the dict has been cleaned first)
is_duplicate(m, signal) ==
    \E recent_key \in clean_old_entries(m.recent_signals, signal, m.dedupe_window_seconds) :
        /\ recent_key[1] = signal.symbol
        /\ recent_key[2] = signal.side
        /\ Abs(recent_key[3] - signal.timestamp) < m.dedupe_window_seconds

\* SignalManager.add_signal: the value returned
add_signal_result(m, signal) == ~is_duplicate(m, signal)

\* SignalManager.add_signal: the SignalManager after the call
add_signal(m, signal) ==
    LET cleaned == clean_old_entries(m.recent_signals, signal, m.dedupe_window_seconds)
    IN  IF is_duplicate(m, signal)
        THEN [m EXCEPT !.recent_signals = cleaned]
        ELSE [m EXCEPT !.signal_queue = Append(@, signal),
                       !.all_signals = Append(@, signal),
                       !.recent_signals = cleaned \cup {SignalKey(signal)}]

\* get_signals_for_timestamp, the while loop: signals are popped from the left
\* of the deque until its head is later than the timestamp
\* mutant of drain_loop: the whole queue is released, whatever the timestamps
drain_loop_ignoring_time(queue, timestamp, signals) ==
    [signals |-> signals \o queue, signal_queue |-> <<>>]

RECURSIVE drain_loop(_, _, _)
drain_loop(queue, timestamp, signals) ==
    IF queue # <<>> /\ Head(queue).timestamp <= timestamp
    THEN drain_loop(Tail(queue), timestamp, Append(signals, Head(queue)))
    ELSE [signals |-> signals, signal_queue |-> queue]

\* SignalManager.get_signals_for_timestamp: the list returned
get_signals_for_timestamp_result(m, timestamp) ==
    drain_loop(m.signal_queue, timestamp, <<>>).signals

\* SignalManager.get_signals_for_timestamp: the SignalManager after the call
get_signals_for_timestamp(m, timestamp) ==
    [m EXCEPT !.signal_queue = drain_loop(m.signal_queue, timestamp, <<>>).signal_queue]

(******************************* risk manager ******************************)
RM == [max_position_pct |-> max_position_pct,
       max_portfolio_leverage |-> max_portfolio_leverage,
       max_positions |-> max_positions,
       min_position_size |-> min_position_size,
       sizing_method |-> sizing_method,
       target_vol |-> target_vol]

\* Python's int() of a float: truncation toward zero
PyInt(a) == IF a[1] >= 0 THEN a[1] \div a[2] ELSE -((-a[1]) \div a[2])

safe_divide(numerator, denominator, default) ==
    IF denominator = R(0) THEN default ELSE RDiv(numerator, denominator)

\* sum(abs(p.quantity * price) for p in current_positions.values() if keep(p))
exposure_at(current_positions, price, syms) ==
    SumOver([s \in DOMAIN current_positions |->
                 RAbs(RMul(R(current_positions[s].quantity), price))], syms)

\* RiskManager.size_by_fraction
size_by_fraction(rm, price, portfolio_value) ==
    IF RLe(price, R(0)) \/ RLe(portfolio_value, R(0))
    THEN rm.min_position_size
    ELSE PyInt(RDiv(RMul(portfolio_value, rm.max_position_pct), price))

\* RiskManager.size_by_volatility
size_by_volatility(rm, price, portfolio_value, volatility) ==
    IF RLe(price, R(0)) \/ RLe(portfolio_value, R(0)) \/ RLe(volatility, R(0))
    THEN rm.min_position_size
    ELSE LET quantity == safe_divide(RMul(rm.target_vol, portfolio_value),
                                     RMul(price, volatility), R(rm.min_position_size))
             max_quantity == RDiv(RMul(portfolio_value, rm.max_position_pct), price)
         IN  PyInt(IF RLt(max_quantity, quantity) THEN max_quantity ELSE quantity)

\* mutant of calculate_position_size: the minimum size is not applied
calculate_position_size_without_minimum(rm, symbol, price, portfolio_value, signal_size, volatility) ==
    IF signal_size # None /\ Val(signal_size) > 0
    THEN Val(signal_size)
    ELSE IF rm.sizing_method = "volatility" /\ volatility # None
    THEN size_by_volatility(rm, price, portfolio_value, Val(volatility))
    ELSE IF rm.sizing_method = "fixed"
    THEN rm.min_position_size
    ELSE size_by_fraction(rm, price, portfolio_value)

\* RiskManager.calculate_position_size; signal_size and volatility are None or
\* Some.  An unknown sizing method, and volatility sizing without a
\* volatility, fall back to the fraction.
calculate_position_size(rm, symbol, price, portfolio_value, signal_size, volatility) ==
    LET size == IF signal_size # None /\ Val(signal_size) > 0
                THEN Val(signal_size)
                ELSE IF rm.sizing_method = "volatility" /\ volatility # None
                THEN size_by_volatility(rm, price, portfolio_value, Val(volatility))
                ELSE IF rm.sizing_method = "fixed"
                THEN rm.min_position_size
                ELSE size_by_fraction(rm, price, portfolio_value)
    IN  Max(size, rm.min_position_size)

\* RiskManager.check_position_limit: (is_allowed, reason), the reason by its kind
check_position_limit(rm, symbol, proposed_quantity, price, portfolio_value, current_positions) ==
    LET current_count ==
            Cardinality({s \in DOMAIN current_positions :
                             current_positions[s].quantity # 0})
        adding_new == \/ symbol \notin DOMAIN current_positions
                      \/ current_positions[symbol].quantity = 0
        position_value == RMul(R(Abs(proposed_quantity)), price)
        max_position_value == RMul(portfolio_value, rm.max_position_pct)
        total_exposure == exposure_at(current_positions, price, DOMAIN current_positions)
        added == RAdd(total_exposure, RAbs(RMul(R(proposed_quantity), price)))
        new_exposure ==
            IF symbol \in DOMAIN current_positions
            THEN RSub(added, RAbs(RMul(R(current_positions[symbol].quantity), price)))
            ELSE added
        leverage == safe_divide(new_exposure, portfolio_value, R(0))
    IN  IF rm.max_positions # None /\ adding_new
           /\ current_count >= Val(rm.max_positions)
        THEN [is_allowed |-> FALSE, reason |-> "max_positions"]
        ELSE IF RLt(max_position_value, position_value)
        THEN [is_allowed |-> FALSE, reason |-> "position_size"]
        ELSE IF RLt(rm.max_portfolio_leverage, leverage)
        THEN [is_allowed |-> FALSE, reason |-> "leverage"]
        ELSE [is_allowed |-> TRUE, reason |-> "OK"]

\* RiskManager.adjust_size_for_limits (price # 0)
\* mutant of adjust_size_for_limits: the clip ignores the per-position cap
adjust_size_for_limits_without_position_cap(rm, symbol, proposed_quantity, price, portfolio_value, current_positions) ==
    IF proposed_quantity <= 0 THEN 0
    ELSE IF check_position_limit(rm, symbol, proposed_quantity, price, portfolio_value,
                                 current_positions).is_allowed
    THEN proposed_quantity
    ELSE LET current_exposure ==
                 exposure_at(current_positions, price,
                             {s \in DOMAIN current_positions :
                                  current_positions[s].symbol # symbol})
             available_exposure ==
                 RSub(RMul(portfolio_value, rm.max_portfolio_leverage), current_exposure)
             max_quantity_leverage == PyInt(RDiv(available_exposure, price))
         IN  Max(Min(max_quantity_leverage, proposed_quantity), 0)

adjust_size_for_limits(rm, symbol, proposed_quantity, price, portfolio_value, current_positions) ==
    IF proposed_quantity <= 0 THEN 0
    ELSE IF check_position_limit(rm, symbol, proposed_quantity, price, portfolio_value,
                                 current_positions).is_allowed
    THEN proposed_quantity
    ELSE LET max_position_value == RMul(portfolio_value, rm.max_position_pct)
             max_quantity == PyInt(RDiv(max_position_value, price))
             current_exposure ==
                 exposure_at(current_positions, price,
                             {s \in DOMAIN current_positions :
                                  current_positions[s].symbol # symbol})
             available_exposure ==
                 RSub(RMul(portfolio_value, rm.max_portfolio_leverage), current_exposure)
             max_quantity_leverage == PyInt(RDiv(available_exposure, price))
             adjusted_quantity == Min(Min(max_quantity, max_quantity_leverage),
                                      proposed_quantity)
         IN  Max(adjusted_quantity, 0)

(***************************** initial states ******************************)
InitialCash == 100
BpsChoices == {0, 5000}

\* no pricing call made yet
NoPricing ==
    [kind |-> "none", order |-> None, bar |-> None, position_side |-> "LONG",
     stop_loss |-> 0, take_profit |-> 0, fill |-> None,
     tie |-> [which |-> "NONE", price |-> Some(0)]]

InitExecution(sl, co, ft) ==
    /\ slippage_bps \in sl
    /\ commission_bps \in co
    /\ use_first_touch \in ft
    /\ pricing = NoPricing

InitOrderManager ==
    /\ orders = <<>>
    /\ active_orders = <<>>
    /\ completed_orders = <<>>
    /\ all_orders = <<>>
    /\ fills = <<>>
    /\ fill_sequences = <<>>

\* Portfolio.__init__
InitPortfolio(track, square) ==
    /\ initial_cash = R(InitialCash)
    /\ track_daily_pnl \in track
    /\ square_off_eod \in square
    /\ cash = R(InitialCash)
    /\ positions = <<>>
    /\ realized_pnl = R(0)
    /\ unrealized_pnl = R(0)
    /\ total_commission = R(0)
    /\ num_trades = 0
    /\ current_day = None
    /\ daily_pnl = R(0)
    /\ daily_starting_value = R(InitialCash)
    /\ previous_day_value = R(InitialCash)
    /\ daily_pnl_history = <<>>
    /\ daily_return_history = <<>>
    /\ snapshots = <<>>
    /\ current_prices = <<>>

\* SignalManager.__init__
InitSignalManager(windows) ==
    /\ dedupe_window_seconds \in windows
    /\ signal_queue = <<>>
    /\ all_signals = <<>>
    /\ recent_signals = {}

\* no sizing call made yet
NoSizing ==
    [symbol |-> "A", proposed_quantity |-> 0, price |-> R(1), portfolio_value |-> R(0),
     current_positions |-> <<>>, check |-> [is_allowed |-> TRUE, reason |-> "OK"],
     result |-> 0]

\* no call of calculate_position_size made yet
NoDesired ==
    [price |-> R(1), portfolio_value |-> R(0), signal_size |-> None,
     volatility |-> None, size |-> None]

\* RiskManager.__init__
InitRiskManager(pcts, leverages, counts) ==
    /\ max_position_pct \in pcts
    /\ max_portfolio_leverage \in leverages
    /\ max_positions \in counts
    /\ sizing = NoSizing
    /\ min_position_size = 1
    /\ sizing_method = "fraction"
    /\ target_vol = Norm(15, 100)
    /\ desired = NoDesired

\* the fields BacktestEngine.__init__ sets besides its components
InitEngine ==
    /\ strategy = "none"
    /\ engine_current_date = None
    /\ engine_snapshots = <<>>
    /\ events = <<>>
    /\ released = <<>>
    /\ applied = <<>>
    /\ raised = "none"

\* the components a specification does not exercise, as their constructors
\* leave them by default
InitIdle == InitSignalManager({1}) /\ InitRiskManager({Norm(1, 5)}, {R(1)}, {None})
            /\ InitEngine

InitDriver ==
    /\ now = 0
    /\ phase = "orders"
    /\ pending = <<>>
    /\ lastOp = [op |-> "init", arg |-> 0, ret |-> TRUE]

(*********** the order manager under any sequence of its operations ********)
OrderIds == 1..MaxOrders

OrderParams ==
    {[order_type |-> "MARKET", limit_price |-> None, stop_price |-> None]}
    \cup {[order_type |-> "LIMIT", limit_price |-> Some(p), stop_price |-> None] : p \in Prices}
    \cup {[order_type |-> "STOP", limit_price |-> None, stop_price |-> Some(p)] : p \in Prices}
    \cup {[order_type |-> "STOP_LIMIT", limit_price |-> Some(p), stop_price |-> Some(q)] :
              p \in Prices, q \in Prices}

\* the bar stream of a run holds one symbol
BarSymbol == "A"
BarsAt(ts) ==
    {Bar(ts, BarSymbol, o, h, l, c) : o \in Prices, h \in Prices, l \in Prices, c \in Prices}

InitOM ==
    /\ InitExecution({0}, {0}, {TRUE})
    /\ InitOrderManager
    /\ InitPortfolio({TRUE}, {FALSE})
    /\ InitDriver
    /\ InitIdle

\* order ids are opaque keys (a uuid suffix): the next unused one stands for any
OMSubmit ==
    /\ Len(all_orders) < MaxOrders
    /\ \E side \in Sides, qty \in 1..MaxQty, op \in OrderParams :
        LET id == Len(all_orders) + 1 IN
        /\ submit_order(id, BarSymbol, side, qty, op.order_type, op.limit_price,
                        op.stop_price, now)
        /\ lastOp' = [op |-> "submit_order", arg |-> id, ret |-> TRUE]
        /\ UNCHANGED <<exVars, pfConf, pfVars, drVars, smVars, rmVars, enVars>>

OMCancel ==
    \E id \in OrderIds :
        /\ cancel_order(id)
        /\ lastOp' = [op |-> "cancel_order", arg |-> id,
                      ret |-> cancel_order_result(id)]
        /\ UNCHANGED <<exVars, pfConf, pfVars, drVars, smVars, rmVars, enVars>>

OMProcessBar ==
    /\ now < MaxTime
    /\ \E bar \in BarsAt(now + 1) :
        /\ process_bar(bar)
        /\ now' = bar.timestamp
        /\ lastOp' = [op |-> "process_bar", arg |-> 0, ret |-> TRUE]
        /\ UNCHANGED <<exVars, pfConf, pfVars, phase, pending, smVars, rmVars, enVars>>

NextOM == OMSubmit \/ OMCancel \/ OMProcessBar

SpecOM == InitOM /\ [][NextOM]_vars

(************ the portfolio under the calls of the bar loop ****************)
\* Each bar: any fills are applied, the portfolio is marked to market at the
\* bar's close and a snapshot is appended (BacktestEngine.on_bar from the
\* application of the fills on).  The fills are arbitrary real fills of the
\* run's symbol, with the commission the execution engine charges.
InitPF ==
    /\ InitExecution({0}, BpsChoices, {TRUE})
    /\ InitOrderManager
    /\ InitPortfolio(BOOLEAN, BOOLEAN)
    /\ InitIdle
    /\ now = 0
    /\ phase = "fills"
    /\ pending = <<>>
    /\ lastOp = [op |-> "init", arg |-> 0, ret |-> TRUE]

PFApplyFill ==
    /\ phase = "fills"
    /\ Len(fills) < MaxFills
    /\ \E side \in Sides, qty \in 1..MaxFillQty, price \in Prices :
        LET fill == [fill_id |-> <<0, Len(fills)>>, order_id |-> 0, timestamp |-> now,
                     symbol |-> BarSymbol, side |-> side, quantity |-> qty,
                     price |-> R(price),
                     commission |-> calculate_commission(qty, R(price), commission_bps),
                     realized_pnl |-> R(0), execution_price |-> R(price)]
        IN  /\ SetPF(apply_fill(PF, fill, None))
            /\ fills' = Append(fills, [fill EXCEPT !.realized_pnl =
                                           applied_realized_pnl(PF, fill, None)])
            /\ lastOp' = [op |-> "apply_fill", arg |-> Len(fills) + 1, ret |-> TRUE]
    /\ UNCHANGED <<exVars, pfConf, now, phase, pending, smVars, rmVars, enVars,
                   orders, active_orders, completed_orders, all_orders, fill_sequences>>

\* the mark-to-market of the bar: update_from_bar(bar), or update_market_prices
\* with the bar's price
PFMarkToMarket ==
    /\ phase = "fills"
    /\ \E close \in Prices, from_bar \in BOOLEAN :
        IF from_bar
        THEN SetPF(update_from_bar(PF, Bar(now, BarSymbol, close, close, close, close)))
        ELSE SetPF(update_market_prices(PF, (BarSymbol :> R(close))))
    /\ phase' = "snapshot"
    /\ lastOp' = [op |-> "mark_to_market", arg |-> 0, ret |-> TRUE]
    /\ UNCHANGED <<exVars, pfConf, omVars, now, pending, smVars, rmVars, enVars>>

PFCreateSnapshot ==
    /\ phase = "snapshot"
    /\ SetPF(create_snapshot(PF, now))
    /\ IF now + 1 < MaxBars THEN now' = now + 1 /\ phase' = "fills"
                            ELSE now' = now /\ phase' = "done"
    /\ lastOp' = [op |-> "create_snapshot", arg |-> 0, ret |-> TRUE]
    /\ UNCHANGED <<exVars, pfConf, omVars, pending, smVars, rmVars, enVars>>

NextPF == PFApplyFill \/ PFMarkToMarket \/ PFCreateSnapshot

SpecPF == InitPF /\ [][NextPF]_vars

(********************************* engine **********************************)
\* The strategy set on the engine: "none" (self.strategy is None), "base" (a
\* strategy with the hooks of StrategyBase only: on_bar, on_fill, on_day_start,
\* on_day_end), "custom" (a strategy that also has the hooks the engine calls
\* outside StrategyBase: on_start, on_end, generate_signal).
Strategies == {"base", "custom"}

DayEvent(kind, date) == [kind |-> kind, date |-> date]

\* on_bar, "Apply fills to portfolio": the fills process_bar returned (indices
\* ret into fills) are applied in list order; apply_fill stores the realized
\* P&L in the Fill object
RECURSIVE apply_fills_loop(_, _)
apply_fills_loop(st, ret) ==
    IF ret = <<>> THEN st
    ELSE LET i == Head(ret)
             fill == st.fills[i]
         IN  apply_fills_loop(
                 [pf |-> apply_fill(st.pf, fill, None),
                  fills |-> [st.fills EXCEPT ![i].realized_pnl =
                                 applied_realized_pnl(st.pf, fill, None)],
                  applied |-> Append(st.applied, i)],
                 Tail(ret))

\* BacktestEngine.on_bar(bar); emitted is what strategy.generate_signal returns.
\* A call of a method its object does not have raises AttributeError, which
\* ends on_bar there: RiskManager has no create_order_from_signal, Portfolio
\* has no update_prices, StrategyBase has no generate_signal.
on_bar(bar, emitted) ==
    IF strategy = "base"
    THEN /\ raised' = "AttributeError: generate_signal"
         /\ released' = <<>>
         /\ applied' = <<>>
         /\ UNCHANGED <<omVars, pfVars, smVars, engine_snapshots>>
    ELSE LET m1 == IF strategy = "custom" /\ emitted # None
                   THEN add_signal(SM, Val(emitted)) ELSE SM
             signals == get_signals_for_timestamp_result(m1, bar.timestamp)
         IN  /\ SetSM(get_signals_for_timestamp(m1, bar.timestamp))
             /\ released' = signals
             /\ IF signals # <<>>
                THEN /\ raised' = "AttributeError: create_order_from_signal"
                     /\ applied' = <<>>
                     /\ UNCHANGED <<omVars, pfVars, engine_snapshots>>
                ELSE LET st == process_bar_result(bar)
                         moved == st.orders_to_complete
                         ap == apply_fills_loop(
                                   [pf |-> PF, fills |-> st.fills, applied |-> <<>>],
                                   st.ret)
                     IN  /\ orders' = st.orders
                         /\ fill_sequences' = st.fill_sequences
                         /\ fills' = ap.fills
                         /\ completed_orders' = completed_orders \o moved
                         /\ active_orders' =
                                SelectSeq(active_orders, LAMBDA x : x \notin Range(moved))
                         /\ UNCHANGED all_orders
                         /\ SetPF(ap.pf)
                         /\ applied' = ap.applied
                         /\ raised' = "AttributeError: update_prices"
                         /\ UNCHANGED engine_snapshots

\* BacktestEngine.run() on a loaded bar stream.  Every path through the first
\* iteration of the bar loop raises, so only the first bar of the stream is
\* ever looked at.  on_day_end reads config.eod.square_off_positions, which
\* EODConfig does not have.
run(stream, emitted) ==
    IF strategy = "none"
    THEN /\ raised' = "ValueError: Strategy not set"
         /\ UNCHANGED <<omVars, pfVars, smVars, engine_snapshots, engine_current_date,
                        events, released, applied>>
    ELSE IF stream = <<>>
    THEN /\ raised' = "ValueError: No data loaded"
         /\ UNCHANGED <<omVars, pfVars, smVars, engine_snapshots, engine_current_date,
                        events, released, applied>>
    ELSE IF strategy = "base"
    THEN /\ raised' = "AttributeError: on_start"
         /\ UNCHANGED <<omVars, pfVars, smVars, engine_snapshots, engine_current_date,
                        events, released, applied>>
    ELSE LET bar == Head(stream)
             bar_date == Date(bar.timestamp)
         IN  IF engine_current_date = None
             THEN /\ engine_current_date' = Some(bar_date)
                  /\ events' = Append(events, DayEvent("day_start", bar_date))
                  /\ on_bar(bar, emitted)
             ELSE IF bar_date # Val(engine_current_date)
             THEN /\ events' = Append(events, DayEvent("day_end", Val(engine_current_date)))
                  /\ raised' = "AttributeError: square_off_positions"
                  /\ UNCHANGED <<omVars, pfVars, smVars, engine_snapshots,
                                 engine_current_date, released, applied>>
             ELSE /\ on_bar(bar, emitted)
                  /\ UNCHANGED <<engine_current_date, events>>

(*************** the engine under the calls of its interface ***************)
MaxSignals == 1
MaxWindow == 2

\* what strategy.generate_signal may return at a bar: nothing, or a signal for
\* the bar's symbol stamped with the bar's time or a later one
StrategySignals(ts) ==
    {None} \cup {Some(Signal(Len(all_signals) + 1, t, BarSymbol, side, 1)) :
                     t \in {ts, ts + 1}, side \in Sides}

\* the bars the engine's loader builds from a price column: Bar.from_price, here
\* of a flat price series
PriceBarsAt(ts) == {Bar(ts, BarSymbol, p, p, p, p) : p \in {MaxPrice}}

InitEN ==
    /\ InitExecution({0}, {0}, {TRUE})
    /\ InitOrderManager
    /\ InitPortfolio({TRUE}, {FALSE})
    /\ InitSignalManager({MaxWindow})
    /\ InitRiskManager({Norm(1, 5)}, {R(1)}, {None})
    /\ InitEngine
    /\ InitDriver

\* BacktestEngine.set_strategy, before the first bar
ENSetStrategy ==
    /\ strategy = "none"
    /\ now = 0
    /\ strategy' \in Strategies
    /\ lastOp' = [op |-> "set_strategy", arg |-> 0, ret |-> TRUE]
    /\ UNCHANGED <<exVars, omVars, pfConf, pfVars, drVars, smVars, rmVars,
                   engine_current_date, engine_snapshots, events, released, applied,
                   raised>>

\* an order placed through the engine's order manager, while a bar is still to come
ENSubmitOrder ==
    /\ Len(all_orders) < MaxOrders
    /\ now < MaxTime
    /\ \E side \in Sides, qty \in 1..MaxQty :
        LET id == Len(all_orders) + 1 IN
        /\ submit_order(id, BarSymbol, side, qty, "MARKET", None, None, now)
        /\ lastOp' = [op |-> "submit_order", arg |-> id, ret |-> TRUE]
    /\ UNCHANGED <<exVars, pfConf, pfVars, drVars, smVars, rmVars, enVars>>

\* a signal loaded into the engine's signal manager (a signal file), before
\* the first bar
ENAddSignal ==
    /\ Len(all_signals) < MaxSignals
    /\ now = 0
    /\ \E ts \in Times, side \in Sides :
        LET signal == Signal(Len(all_signals) + 1, ts, BarSymbol, side, 1) IN
        /\ SetSM(add_signal(SM, signal))
        /\ lastOp' = [op |-> "add_signal", arg |-> signal.signal_id,
                      ret |-> add_signal_result(SM, signal)]
    /\ UNCHANGED <<exVars, omVars, pfConf, pfVars, drVars, rmVars, enVars>>

ENOnBar ==
    /\ now < MaxTime
    /\ \E bar \in PriceBarsAt(now + 1), emitted \in StrategySignals(now + 1) :
        /\ strategy # "custom" => emitted = None
        /\ on_bar(bar, emitted)
        /\ now' = bar.timestamp
        /\ lastOp' = [op |-> "on_bar",
                      arg |-> IF emitted = None THEN 0 ELSE Val(emitted).signal_id,
                      ret |-> IF emitted = None THEN TRUE
                              ELSE add_signal_result(SM, Val(emitted))]
    /\ UNCHANGED <<exVars, pfConf, phase, pending, rmVars, strategy,
                   engine_current_date, events>>

ENRun ==
    /\ now < MaxTime
    /\ \E stream \in {<<>>} \cup {<<bar>> : bar \in PriceBarsAt(now + 1)},
          emitted \in StrategySignals(now + 1) :
        /\ strategy # "custom" => emitted = None
        /\ run(stream, emitted)
        /\ now' = IF stream # <<>> /\ strategy = "custom" THEN now + 1 ELSE now
        /\ lastOp' = [op |-> "run",
                      arg |-> IF emitted = None THEN 0 ELSE Val(emitted).signal_id,
                      ret |-> stream # <<>>]
    /\ UNCHANGED <<exVars, pfConf, phase, pending, rmVars, strategy>>

NextEN == ENSetStrategy \/ ENSubmitOrder \/ ENAddSignal \/ ENOnBar \/ ENRun

SpecEN == InitEN /\ [][NextEN]_vars

(************** the engine fed the bars of a stream in any order ***********)
\* The bar loop hands every bar of the list the loader returns to on_bar, in
\* list order; the loader keeps the order of the rows of the file.  now is the
\* latest bar time seen so far, lastOp.arg the time of the bar just handed over.
InitMB == InitEN

MBOnBar ==
    /\ \E ts \in Times : \E bar \in PriceBarsAt(ts) :
        /\ on_bar(bar, None)
        /\ now' = Max(now, bar.timestamp)
        /\ lastOp' = [op |-> "on_bar", arg |-> bar.timestamp, ret |-> TRUE]
    /\ UNCHANGED <<exVars, pfConf, phase, pending, rmVars, strategy,
                   engine_current_date, events>>

NextMB == ENSubmitOrder \/ MBOnBar

SpecMB == InitMB /\ [][NextMB]_vars

(********** the signal manager under any sequence of its operations ********)
MaxQueued == 3

InitSQ ==
    /\ InitExecution({0}, {0}, {TRUE})
    /\ InitOrderManager
    /\ InitPortfolio({TRUE}, {FALSE})
    /\ InitSignalManager(1..MaxWindow)
    /\ InitRiskManager({Norm(1, 5)}, {R(1)}, {None})
    /\ InitEngine
    /\ InitDriver

\* SignalManager.add_signal with any signal: timestamps come in any order
SQAddSignal ==
    /\ Len(all_signals) < MaxQueued
    /\ \E ts \in Times, sym \in Symbols, side \in Sides :
        LET signal == Signal(Len(all_signals) + 1, ts, sym, side, 1) IN
        /\ SetSM(add_signal(SM, signal))
        /\ lastOp' = [op |-> "add_signal", arg |-> signal,
                      ret |-> add_signal_result(SM, signal)]
    /\ UNCHANGED <<exVars, omVars, pfConf, pfVars, drVars, rmVars, enVars>>

\* SignalManager.get_signals_for_timestamp at any time
SQDrain ==
    /\ \E timestamp \in Times :
        /\ SetSM(get_signals_for_timestamp(SM, timestamp))
        /\ released' = get_signals_for_timestamp_result(SM, timestamp)
        /\ lastOp' = [op |-> "get_signals_for_timestamp", arg |-> timestamp, ret |-> TRUE]
    /\ UNCHANGED <<exVars, omVars, pfConf, pfVars, drVars, rmVars, strategy,
                   engine_current_date, engine_snapshots, events, applied, raised>>

NextSQ == SQAddSignal \/ SQDrain

SpecSQ == InitSQ /\ [][NextSQ]_vars

(************* the risk manager's size adjustment on any inputs ************)
MaxProposed == 3
MaxEquity == 5

\* a position as the portfolio holds it: quantity q, long or short or closed
HeldPosition(symbol, q) ==
    [NewPosition(symbol, 0) EXCEPT !.quantity = q,
                                   !.avg_price = IF q = 0 THEN R(0) ELSE R(1)]

\* the dicts symbol -> Position the portfolio can hand to the risk manager
PositionDicts ==
    UNION {[syms -> (-MaxQty)..MaxQty] : syms \in SUBSET Symbols}

\* the arguments of one call of adjust_size_for_limits, before the call
SizingInputs ==
    {[symbol |-> symbol, proposed_quantity |-> proposed_quantity, price |-> R(p),
      portfolio_value |-> R(equity),
      current_positions |-> [s \in DOMAIN held |-> HeldPosition(s, held[s])],
      check |-> NoSizing.check, result |-> NoSizing.result] :
         symbol \in Symbols, proposed_quantity \in (-1)..MaxProposed, p \in Prices,
         equity \in 1..MaxEquity, held \in PositionDicts}

InitRK ==
    /\ InitExecution({0}, {0}, {TRUE})
    /\ InitOrderManager
    /\ InitPortfolio({TRUE}, {FALSE})
    /\ InitSignalManager({1})
    /\ max_position_pct \in {Norm(1, 5), Norm(1, 2)}
    /\ max_portfolio_leverage \in {R(1), R(2)}
    /\ max_positions \in {None, Some(1)}
    /\ sizing \in SizingInputs
    /\ min_position_size = 1
    /\ sizing_method = "fraction"
    /\ target_vol = Norm(15, 100)
    /\ desired = NoDesired
    /\ InitEngine
    /\ InitDriver

\* RiskManager.adjust_size_for_limits on the proposed quantity, price, equity
\* and positions drawn
RKAdjustSize ==
    /\ sizing' = [sizing EXCEPT
                     !.check = check_position_limit(RM, sizing.symbol,
                                   sizing.proposed_quantity, sizing.price,
                                   sizing.portfolio_value, sizing.current_positions),
                     !.result = adjust_size_for_limits(RM, sizing.symbol,
                                   sizing.proposed_quantity, sizing.price,
                                   sizing.portfolio_value, sizing.current_positions)]
    /\ lastOp' = [op |-> "adjust_size_for_limits", arg |-> sizing.proposed_quantity,
                  ret |-> TRUE]
    /\ UNCHANGED <<exVars, omVars, pfConf, pfVars, drVars, smVars, max_position_pct,
                   max_portfolio_leverage, max_positions, enVars,
                   min_position_size, sizing_method, target_vol, desired>>

NextRK == RKAdjustSize

SpecRK == InitRK /\ [][NextRK]_vars

(************ the risk manager's desired size on any inputs ***************)
MaxMinSize == 2

\* the arguments of one call of calculate_position_size, before the call
DesiredInputs ==
    {[price |-> R(p), portfolio_value |-> R(equity), signal_size |-> signal_size,
      volatility |-> volatility, size |-> None] :
         p \in 0..MaxPrice, equity \in 0..MaxEquity,
         signal_size \in {None, Some(0), Some(2)},
         volatility \in {None, Some(Norm(1, 10))}}

InitSZ ==
    /\ InitExecution({0}, {0}, {TRUE})
    /\ InitOrderManager
    /\ InitPortfolio({TRUE}, {FALSE})
    /\ InitSignalManager({1})
    /\ max_position_pct \in {Norm(1, 5), Norm(1, 2)}
    /\ max_portfolio_leverage = R(1)
    /\ max_positions = None
    /\ sizing = NoSizing
    /\ min_position_size \in 0..MaxMinSize
    /\ sizing_method \in {"fraction", "volatility", "fixed", "other"}
    /\ target_vol = Norm(15, 100)
    /\ desired \in DesiredInputs
    /\ InitEngine
    /\ InitDriver

\* RiskManager.calculate_position_size on the price, equity, signal size and
\* volatility drawn
SZCalculateSize ==
    /\ desired' = [desired EXCEPT
                      !.size = Some(calculate_position_size(RM, BarSymbol, desired.price,
                                        desired.portfolio_value, desired.signal_size,
                                        desired.volatility))]
    /\ lastOp' = [op |-> "calculate_position_size", arg |-> 0, ret |-> TRUE]
    /\ UNCHANGED <<exVars, omVars, pfConf, pfVars, drVars, smVars, enVars,
                   max_position_pct, max_portfolio_leverage, max_positions, sizing,
                   min_position_size, sizing_method, target_vol>>

NextSZ == SZCalculateSize

SpecSZ == InitSZ /\ [][NextSZ]_vars

(******** orders sized by the risk manager and filled, one symbol **********)
\* Each order is sized by adjust_size_for_limits against the positions the
\* portfolio holds, at a price and an equity that stay as drawn, and an order
\* of a positive size is filled whole at that price.  All orders are on the
\* side of the first one.
MaxAdmitted == 3

InitAO ==
    /\ InitExecution({0}, {0}, {TRUE})
    /\ InitOrderManager
    /\ InitPortfolio({FALSE}, {FALSE})
    /\ InitSignalManager({1})
    /\ max_position_pct \in {Norm(1, 5), Norm(1, 2)}
    /\ max_portfolio_leverage \in {R(1), R(2)}
    /\ max_positions \in {None, Some(1)}
    /\ sizing \in {[NoSizing EXCEPT !.symbol = BarSymbol, !.price = R(p),
                                    !.portfolio_value = R(equity)] :
                       p \in Prices, equity \in 1..MaxEquity}
    /\ min_position_size = 1
    /\ sizing_method = "fraction"
    /\ target_vol = Norm(15, 100)
    /\ desired = NoDesired
    /\ InitEngine
    /\ now = 0
    /\ phase = "size"
    /\ pending = <<>>
    /\ lastOp = [op |-> "init", arg |-> "BUY", ret |-> 0]

\* the side of the orders: that of the position held, any while flat
SameSide(side) ==
    IF BarSymbol \notin DOMAIN positions THEN TRUE
    ELSE IF positions[BarSymbol].quantity = 0 THEN TRUE
    ELSE IF positions[BarSymbol].quantity > 0 THEN side = "BUY"
    ELSE side = "SELL"

\* RiskManager.adjust_size_for_limits for the next order
AOAdjustSize ==
    /\ phase = "size"
    /\ Len(fills) < MaxAdmitted
    /\ \E side \in Sides, proposed_quantity \in 1..MaxProposed :
        /\ SameSide(side)
        /\ sizing' = [sizing EXCEPT
                         !.proposed_quantity = proposed_quantity,
                         !.current_positions = positions,
                         !.check = check_position_limit(RM, sizing.symbol,
                                       proposed_quantity, sizing.price,
                                       sizing.portfolio_value, positions),
                         !.result = adjust_size_for_limits(RM, sizing.symbol,
                                       proposed_quantity, sizing.price,
                                       sizing.portfolio_value, positions)]
        /\ phase' = IF sizing'.result > 0 THEN "fill" ELSE "size"
        /\ lastOp' = [op |-> "adjust_size_for_limits", arg |-> side,
                      ret |-> sizing'.result]
    /\ UNCHANGED <<exVars, omVars, pfConf, pfVars, now, pending, smVars, enVars,
                   max_position_pct, max_portfolio_leverage, max_positions,
                   min_position_size, sizing_method, target_vol, desired>>

\* the order of the admitted size fills whole at the price: Portfolio.apply_fill
AOFillAdmitted ==
    /\ phase = "fill"
    /\ LET fill == [fill_id |-> <<0, Len(fills)>>, order_id |-> 0, timestamp |-> now,
                    symbol |-> sizing.symbol, side |-> lastOp.arg,
                    quantity |-> sizing.result, price |-> sizing.price,
                    commission |-> R(0), realized_pnl |-> R(0),
                    execution_price |-> sizing.price]
       IN  /\ SetPF(apply_fill(PF, fill, None))
           /\ fills' = Append(fills, [fill EXCEPT !.realized_pnl =
                                          applied_realized_pnl(PF, fill, None)])
           /\ lastOp' = [op |-> "apply_fill", arg |-> lastOp.arg, ret |-> sizing.result]
    /\ phase' = "size"
    /\ UNCHANGED <<exVars, pfConf, now, pending, smVars, rmVars, enVars,
                   orders, active_orders, completed_orders, all_orders, fill_sequences>>

NextAO == AOAdjustSize \/ AOFillAdmitted

SpecAO == InitAO /\ [][NextAO]_vars

(********** the execution engine's pricing functions on any inputs *********)
MaxTick == 3
Ticks == 1..MaxTick

\* the OHLC bars over the ticks
TickBars ==
    {Bar(1, BarSymbol, o, h, l, c) : o \in Ticks, h \in Ticks, l \in Ticks, c \in Ticks}

\* the active orders of every type and side, with their prices over the ticks
TickOrders ==
    {NewOrder(1, BarSymbol, side, 1, "MARKET", None, None, 0) : side \in Sides}
    \cup {NewOrder(1, BarSymbol, side, 1, "LIMIT", Some(p), None, 0) :
              side \in Sides, p \in Ticks}
    \cup {NewOrder(1, BarSymbol, side, 1, "STOP", None, Some(p), 0) :
              side \in Sides, p \in Ticks}
    \cup {NewOrder(1, BarSymbol, side, 1, "STOP_LIMIT", Some(p), Some(q), 0) :
              side \in Sides, p \in Ticks, q \in Ticks}

PositionSides == {"LONG", "SHORT"}

\* the arguments of one call of simulate_fill or of resolve_tp_sl_tie, before the call
PricingInputs ==
    {[NoPricing EXCEPT !.kind = "order", !.order = order, !.bar = bar] :
         order \in TickOrders, bar \in TickBars}
    \cup {[NoPricing EXCEPT !.kind = "tie", !.bar = bar, !.position_side = position_side,
                            !.stop_loss = stop_loss, !.take_profit = take_profit] :
              bar \in TickBars, position_side \in PositionSides,
              stop_loss \in Ticks, take_profit \in Ticks}

InitEX ==
    /\ slippage_bps \in BpsChoices
    /\ commission_bps = 0
    /\ use_first_touch \in BOOLEAN
    /\ pricing \in PricingInputs
    /\ InitOrderManager
    /\ InitPortfolio({TRUE}, {FALSE})
    /\ InitIdle
    /\ InitDriver

\* ExecutionEngine.simulate_fill on the order and bar drawn
EXSimulateFill ==
    /\ pricing.kind = "order"
    /\ pricing' = [pricing EXCEPT !.fill = simulate_fill(ExConf, pricing.order, pricing.bar, 0)]
    /\ lastOp' = [op |-> "simulate_fill", arg |-> 0, ret |-> TRUE]
    /\ UNCHANGED <<slippage_bps, commission_bps, use_first_touch, omVars, pfConf, pfVars,
                   drVars, smVars, rmVars, enVars>>

\* ExecutionEngine.resolve_tp_sl_tie on the position side, levels and bar drawn
EXResolveTie ==
    /\ pricing.kind = "tie"
    /\ pricing' = [pricing EXCEPT !.tie = resolve_tp_sl_tie(pricing.position_side,
                                              pricing.stop_loss, pricing.take_profit,
                                              pricing.bar)]
    /\ lastOp' = [op |-> "resolve_tp_sl_tie", arg |-> 0, ret |-> TRUE]
    /\ UNCHANGED <<slippage_bps, commission_bps, use_first_touch, omVars, pfConf, pfVars,
                   drVars, smVars, rmVars, enVars>>

NextEX == EXSimulateFill \/ EXResolveTie

SpecEX == InitEX /\ [][NextEX]_vars

(******** the portfolio across a day boundary, with two symbols ************)
\* Bars follow one another; at each bar fills of either symbol may be applied
\* and either symbol may be marked at a close.  The end-of-day square-off runs
\* inside the first apply_fill of a new day.
MaxEodFills == 2

\* the symbols holding a position
Held == {s \in DOMAIN positions : positions[s].quantity # 0}

InitEOD ==
    /\ InitExecution({0}, BpsChoices, {TRUE})
    /\ InitOrderManager
    /\ InitPortfolio({TRUE}, {TRUE})
    /\ InitIdle
    /\ now = 0
    /\ phase = "fills"
    /\ pending = <<>>
    /\ lastOp = [op |-> "init", arg |-> 0, ret |-> {}]

\* Portfolio.apply_fill(fill); ret records the symbols the call squared off
EODApplyFill ==
    /\ Len(fills) < MaxEodFills
    /\ \E symbol \in Symbols, side \in Sides, qty \in 1..MaxQty, price \in Prices :
        LET fill == [fill_id |-> <<0, Len(fills)>>, order_id |-> 0, timestamp |-> now,
                     symbol |-> symbol, side |-> side, quantity |-> qty,
                     price |-> R(price),
                     commission |-> calculate_commission(qty, R(price), commission_bps),
                     realized_pnl |-> R(0), execution_price |-> R(price)]
        IN  /\ SetPF(apply_fill(PF, fill, None))
            /\ fills' = Append(fills, [fill EXCEPT !.realized_pnl =
                                           applied_realized_pnl(PF, fill, None)])
            /\ lastOp' = [op |-> "apply_fill", arg |-> Len(fills) + 1,
                          ret |-> IF current_day # None /\ Date(now) # Val(current_day)
                                  THEN Held ELSE {}]
    /\ UNCHANGED <<exVars, pfConf, now, phase, pending, smVars, rmVars, enVars,
                   orders, active_orders, completed_orders, all_orders, fill_sequences>>

\* Portfolio.update_from_bar with a bar of either symbol
EODMarkToMarket ==
    /\ \E symbol \in Symbols, close \in Prices :
        SetPF(update_from_bar(PF, Bar(now, symbol, close, close, close, close)))
    /\ lastOp' = [op |-> "mark_to_market", arg |-> 0, ret |-> {}]
    /\ UNCHANGED <<exVars, pfConf, omVars, drVars, smVars, rmVars, enVars>>

\* the bar loop moves on to the next bar
EODNextBar ==
    /\ now + 1 < MaxBars
    /\ now' = now + 1
    /\ lastOp' = [op |-> "next_bar", arg |-> 0, ret |-> {}]
    /\ UNCHANGED <<exVars, pfConf, pfVars, omVars, phase, pending, smVars, rmVars, enVars>>

NextEOD == EODApplyFill \/ EODMarkToMarket \/ EODNextBar

SpecEOD == InitEOD /\ [][NextEOD]_vars

(***************************** portfolio claims ****************************)
LastSnapshot == snapshots[Len(snapshots)]
AppliedFill == fills'[lastOp'.arg]
AllFlat(pos) == \A sym \in DOMAIN pos : pos[sym].quantity = 0
SumRealizedOfFills ==
    SumOver([i \in DOMAIN fills |-> fills[i].realized_pnl], DOMAIN fills)

\* C1: in every snapshot of the run, total_equity = cash + the sum over the
\* positions of signed quantity x mark, the mark being that of the bar just
\* processed.
C1_EquityIsCashPlusMarkedPositions ==
    lastOp.op = "create_snapshot" =>
        LET s == LastSnapshot IN
        s.total_value =
            RAdd(s.cash,
                 SumOver([sym \in DOMAIN s.positions |->
                              RMul(R(s.positions[sym].quantity), current_prices[sym])],
                         DOMAIN s.positions))

\* C2: a BUY fill decreases cash by quantity x price + commission and a SELL
\* fill increases cash by quantity x price - commission, counted from the cash
\* the fill finds (after any end-of-day square-off the call performs first).
C2_CashEffectOfFill ==
    [][lastOp'.op = "apply_fill" =>
         LET f == AppliedFill
             gross == RMul(R(f.quantity), f.price)
             before == apply_fill_prepare(PF, f, None).cash
         IN  IF f.side = "BUY"
             THEN cash' = RSub(before, RAdd(gross, f.commission))
             ELSE cash' = RAdd(before, RSub(gross, f.commission))]_vars

\* C3: once the fills have left every position flat and the portfolio is marked
\* to market, unrealized_pnl = 0 and total_equity = cash = initial_cash +
\* realized_pnl - total_commission.
C3_FlatEquityIdentity ==
    (lastOp.op = "mark_to_market" /\ Len(fills) > 0 /\ AllFlat(positions)) =>
        /\ unrealized_pnl = R(0)
        /\ get_total_value(PF) = cash
        /\ cash = RSub(RAdd(initial_cash, realized_pnl), total_commission)

\* C4: at every snapshot the cumulative realized_pnl equals the sum of
\* realized_pnl over the fills produced so far.
C4_RealizedIsSumOfFills ==
    lastOp.op = "create_snapshot" => LastSnapshot.realized_pnl = SumRealizedOfFills

\* C5: a fill that reduces a position's magnitude without closing or flipping
\* it leaves the position's avg_entry_price (avg_price) unchanged.
C5_PartialCloseKeepsAvgPrice ==
    [][lastOp'.op = "apply_fill" =>
         LET f == AppliedFill
             old == apply_fill_prepare(PF, f, None).positions[f.symbol]
             new == positions'[f.symbol]
         IN  (/\ new.quantity # 0
              /\ (old.quantity > 0) = (new.quantity > 0)
              /\ Abs(new.quantity) < Abs(old.quantity))
             => new.avg_price = old.avg_price]_vars

\* C6: a fill that flips a position's direction sets avg_entry_price (avg_price)
\* to the fill price and opened_ts (opened_at) to the fill timestamp.
C6_FlipResetsAvgPrice ==
    [][lastOp'.op = "apply_fill" =>
         LET f == AppliedFill
             old == apply_fill_prepare(PF, f, None).positions[f.symbol]
             new == positions'[f.symbol]
         IN  (/\ old.quantity # 0
              /\ new.quantity # 0
              /\ (old.quantity > 0) # (new.quantity > 0))
             => /\ new.avg_price = f.price
                /\ new.opened_at = Some(f.timestamp)]_vars

(******************************* order claims ******************************)
SubmittedIds == Range(all_orders)
FillsOf(id) == {i \in DOMAIN fills : fills[i].order_id = id}

\* C7: every order submitted with quantity > 0 has 0 <= filled_quantity <=
\* quantity, and its status is FILLED exactly when filled_quantity = quantity.
C7_FilledQuantityInvariant ==
    \A id \in SubmittedIds :
        LET o == orders[id] IN
        o.quantity > 0 =>
            /\ 0 <= o.filled_quantity
            /\ o.filled_quantity <= o.quantity
            /\ (o.status = "FILLED") <=> (o.filled_quantity = o.quantity)

\* a filled order of quantity MaxQty beside an order cancelled with nothing filled
C7_Witness ==
    \E a \in SubmittedIds, b \in SubmittedIds :
        /\ orders[a].status = "FILLED" /\ orders[a].filled_quantity = MaxQty
        /\ orders[b].status = "CANCELLED" /\ orders[b].filled_quantity = 0

\* C8: every submitted order is in exactly one of the active and the completed
\* container; an active order's status is PENDING, SUBMITTED or PARTIAL and a
\* completed order's is FILLED, CANCELLED or REJECTED.
C8_ActiveCompletedPartition ==
    /\ \A id \in SubmittedIds :
        /\ (id \in Range(active_orders)) # (id \in Range(completed_orders))
        /\ id \in Range(active_orders) =>
               orders[id].status \in {"PENDING", "SUBMITTED", "PARTIAL"}
        /\ id \in Range(completed_orders) =>
               orders[id].status \in {"FILLED", "CANCELLED", "REJECTED"}
    /\ Range(active_orders) \cup Range(completed_orders) \subseteq SubmittedIds
    /\ Len(active_orders) + Len(completed_orders) = Len(all_orders)

\* a filled order already moved to completed while another order is still active
C8_Witness ==
    /\ lastOp.op = "process_bar"
    /\ \E a \in Range(completed_orders), b \in Range(active_orders) :
        orders[a].status = "FILLED" /\ orders[b].status = "SUBMITTED"

\* C9: a fill carries the order's whole quantity, an order has at most one fill
\* (so at most one per bar), no order is ever PARTIAL, and every order's
\* filled_quantity is 0 or its quantity.
C9_NoPartialFills ==
    /\ \A i \in DOMAIN fills : fills[i].quantity = orders[fills[i].order_id].quantity
    /\ \A id \in SubmittedIds :
        /\ Cardinality(FillsOf(id)) <= 1
        /\ orders[id].status # "PARTIAL"
        /\ orders[id].filled_quantity \in {0, orders[id].quantity}

\* two orders filled by the same bar, one of them of quantity MaxQty
C9_Witness ==
    \E i \in DOMAIN fills, j \in DOMAIN fills :
        /\ i # j
        /\ fills[i].timestamp = fills[j].timestamp
        /\ fills[i].quantity = MaxQty
        /\ orders[fills[i].order_id].filled_quantity = MaxQty

\* C10: cancel_order returns true exactly when the order is active, and then the
\* order is CANCELLED and moved to completed; otherwise it returns false and the
\* containers, the fills and every order are left as they were.
C10_CancelContract ==
    [][lastOp'.op = "cancel_order" =>
         LET id == lastOp'.arg
             ret == lastOp'.ret
         IN  /\ ret <=> (id \in Range(active_orders))
             /\ ret => /\ orders'[id].status = "CANCELLED"
                       /\ id \in Range(completed_orders')
                       /\ id \notin Range(active_orders')
             /\ ~ret => UNCHANGED omVars]_vars

\* cancel was refused for an order that an earlier cancel had completed, while a
\* filled order sits in completed too
C10_Witness ==
    /\ lastOp.op = "cancel_order"
    /\ lastOp.ret = FALSE
    /\ lastOp.arg \in Range(completed_orders)
    /\ orders[lastOp.arg].status = "CANCELLED"
    /\ \E b \in Range(completed_orders) : orders[b].status = "FILLED"

(****************************** engine claims ******************************)
\* the indices in fills of the fills the step's process_bar returned
ReturnedFills == [k \in 1..(Len(fills') - Len(fills)) |-> Len(fills) + k]

\* the place of an order in the order of submission
SubmissionIndex(order_id) == CHOOSE k \in DOMAIN all_orders : all_orders[k] = order_id

\* generate_order_id: "ORD_{symbol}_{timestamp}_{side}_{uuid}".  Between two
\* orders of one symbol the timestamp decides the lexicographic order, then
\* the side ("BUY" < "SELL"), then the random suffix, which is not modelled:
\* a before b as far as timestamp and side decide
order_key_before(a, b) ==
    \/ a.timestamp < b.timestamp
    \/ a.timestamp = b.timestamp /\ a.side = "BUY" /\ b.side = "SELL"

EngineBarStep == lastOp'.op \in {"on_bar", "run"} /\ Len(fills') > Len(fills)

C13_SameBarEligibility ==
    [][(/\ lastOp'.op = "on_bar"
        /\ lastOp'.arg > 0
        /\ lastOp'.ret
        /\ all_signals'[Len(all_signals')].timestamp = now'
        /\ \A p \in Prices :
               adjust_size_for_limits(RM, BarSymbol, all_signals'[Len(all_signals')].size,
                                      R(p), get_total_value(PF), positions) > 0)
       => /\ Len(all_orders') = Len(all_orders) + 1
          /\ Len(fills') > Len(fills)
          /\ fills'[Len(fills')].timestamp = now']_vars

\* C14: exactly one snapshot is appended per bar processed, carrying the bar's
\* timestamp.
C14_OneSnapshotPerBar ==
    [][lastOp'.op = "on_bar" =>
         /\ Len(engine_snapshots') = Len(engine_snapshots) + 1
         /\ engine_snapshots'[Len(engine_snapshots')].timestamp = now']_vars

\* the day events alternate day_start(d), day_end(d), ... and every day_start
\* has its day_end
DayEventsMatched(ev) ==
    /\ Len(ev) % 2 = 0
    /\ \A i \in DOMAIN ev :
           IF i % 2 = 1 THEN ev[i].kind = "day_start"
           ELSE ev[i].kind = "day_end" /\ ev[i].date = ev[i - 1].date

DrainStep == lastOp'.op = "get_signals_for_timestamp"

\* C16: draining the queue at time T returns every queued signal stamped at or
\* before T and leaves in the queue exactly the signals stamped after T,
\* whatever the order in which the signals were inserted.
C16_DrainSplitsAtTimestamp ==
    [][DrainStep =>
          /\ Range(released') = {s \in Range(signal_queue) : s.timestamp <= lastOp'.arg}
          /\ Range(signal_queue') = {s \in Range(signal_queue) : s.timestamp > lastOp'.arg}]_vars

\* C17: the signals one drain returns are in ascending timestamp order, and
\* signals with equal timestamps come in the order they were inserted
\* (signal ids count the insertions).
C17_DrainedInTimestampOrder ==
    lastOp.op = "get_signals_for_timestamp" =>
        \A i \in DOMAIN released : \A j \in DOMAIN released :
            i < j => \/ released[i].timestamp < released[j].timestamp
                     \/ /\ released[i].timestamp = released[j].timestamp
                        /\ released[i].signal_id < released[j].signal_id

\* C18: add_signal rejects a signal, leaving the queue as it was, whenever a
\* signal accepted before it has the same symbol and side and a timestamp
\* closer to its own than dedupe_window_seconds, in whatever order the
\* timestamps come and whether or not the earlier signal has been drained.
C18_DuplicateWithinWindowRejected ==
    [][(/\ lastOp'.op = "add_signal"
        /\ \E k \in DOMAIN all_signals :
              /\ all_signals[k].symbol = lastOp'.arg.symbol
              /\ all_signals[k].side = lastOp'.arg.side
              /\ Abs(all_signals[k].timestamp - lastOp'.arg.timestamp)
                     < dedupe_window_seconds)
       => (lastOp'.ret = FALSE /\ signal_queue' = signal_queue)]_vars


(**************************** risk manager claims **************************)
Sized == lastOp.op = "adjust_size_for_limits"

OpenPositions(current_positions) ==
    {s \in DOMAIN current_positions : current_positions[s].quantity # 0}

\* sum of |quantity x price| over the positions in symbols other than the
\* order's, at the order's price
OtherExposure ==
    exposure_at(sizing.current_positions, sizing.price,
                DOMAIN sizing.current_positions \ {sizing.symbol})

\* C19: when max_positions is set, that many positions are already open and
\* the order is for a symbol with no open position, the size admitted is 0.
C19_MaxPositionsRejects ==
    (/\ Sized
     /\ max_positions # None
     /\ Cardinality(OpenPositions(sizing.current_positions)) = Val(max_positions)
     /\ sizing.symbol \notin OpenPositions(sizing.current_positions))
    => sizing.result = 0

\* C20 as stated: for any proposed quantity, the size q returned lies between
\* 0 and the proposed quantity, its notional is within equity x
\* max_position_pct, and with the exposure of the other symbols it is within
\* max_portfolio_leverage x equity.
C20_AdjustedSizeWithinLimits ==
    Sized =>
        /\ 0 <= sizing.result
        /\ sizing.result <= sizing.proposed_quantity
        /\ RLe(RMul(R(sizing.result), sizing.price),
               RMul(sizing.portfolio_value, max_position_pct))
        /\ RLe(RAdd(OtherExposure, RMul(R(sizing.result), sizing.price)),
               RMul(max_portfolio_leverage, sizing.portfolio_value))

\* C20, amended: for a proposed quantity that is not negative, the size q
\* returned lies between 0 and the proposed quantity, its notional is within
\* equity x max_position_pct, and either q is 0 or, with the exposure of the
\* other symbols, it is within max_portfolio_leverage x equity.
C20_AdjustedSizeWithinLimitsOrZero ==
    (Sized /\ sizing.proposed_quantity >= 0) =>
        /\ 0 <= sizing.result
        /\ sizing.result <= sizing.proposed_quantity
        /\ RLe(RMul(R(sizing.result), sizing.price),
               RMul(sizing.portfolio_value, max_position_pct))
        /\ \/ sizing.result = 0
           \/ RLe(RAdd(OtherExposure, RMul(R(sizing.result), sizing.price)),
                  RMul(max_portfolio_leverage, sizing.portfolio_value))

\* a proposed quantity over the limits, clipped to a smaller positive size
\* while another symbol is held
C20_Witness ==
    /\ Sized
    /\ ~sizing.check.is_allowed
    /\ 0 < sizing.result
    /\ sizing.result < sizing.proposed_quantity
    /\ RLt(R(0), OtherExposure)


(*************************** execution engine claims ***********************)
\* a tie: resolve_tp_sl_tie has been called on a bar that hits both levels
BothHit ==
    /\ lastOp.op = "resolve_tp_sl_tie"
    /\ check_stop_loss_hit(pricing.position_side, pricing.stop_loss, pricing.bar).is_hit
    /\ check_take_profit_hit(pricing.position_side, pricing.take_profit, pricing.bar).is_hit

\* the hit prices: LONG TP max(TP, open), LONG SL min(SL, open), SHORT mirrored
TieTakeProfit ==
    [which |-> "TP",
     price |-> Some(IF pricing.position_side = "LONG"
                    THEN Max(pricing.take_profit, pricing.bar.open)
                    ELSE Min(pricing.take_profit, pricing.bar.open))]

TieStopLoss ==
    [which |-> "SL",
     price |-> Some(IF pricing.position_side = "LONG"
                    THEN Min(pricing.stop_loss, pricing.bar.open)
                    ELSE Max(pricing.stop_loss, pricing.bar.open))]

\* C25 as stated: when a bar hits both the stop-loss and the take-profit, a
\* bar with close > open gives TP first for longs and SL first for shorts, and
\* a bar with close <= open gives SL first for longs and TP first for shorts;
\* the price returned is the hit price of the level chosen.
C25_TieBreakByDirection ==
    BothHit =>
        pricing.tie =
            IF pricing.bar.close > pricing.bar.open
            THEN (IF pricing.position_side = "LONG" THEN TieTakeProfit ELSE TieStopLoss)
            ELSE (IF pricing.position_side = "LONG" THEN TieStopLoss ELSE TieTakeProfit)

\* C25, amended: close > open gives TP first for longs and SL first for shorts,
\* close < open gives SL first for longs and TP first for shorts, and
\* close = open gives SL first for both; the price returned is the hit price of
\* the level chosen.
C25_TieBreakByDirectionFlatToStop ==
    BothHit =>
        pricing.tie =
            IF pricing.bar.close > pricing.bar.open
            THEN (IF pricing.position_side = "LONG" THEN TieTakeProfit ELSE TieStopLoss)
            ELSE IF pricing.bar.close < pricing.bar.open
            THEN (IF pricing.position_side = "LONG" THEN TieStopLoss ELSE TieTakeProfit)
            ELSE TieStopLoss

\* a short whose two levels are hit by a bar closing at its open
C25_Witness ==
    /\ BothHit
    /\ pricing.position_side = "SHORT"
    /\ pricing.bar.close = pricing.bar.open
    /\ pricing.take_profit < pricing.stop_loss
    /\ pricing.tie.which = "SL"

\* simulate_fill has been called on an order of the type
Priced(order_type) ==
    lastOp.op = "simulate_fill" /\ pricing.order.order_type = order_type

C27_StopFillRule ==
    Priced("STOP") =>
        LET order == pricing.order
            bar == pricing.bar
            stop == Val(order.stop_price)
            buy == order.side = "BUY"
            touched == IF buy THEN bar.high >= stop ELSE bar.low <= stop
            filled == pricing.fill # None
        IN  /\ filled <=> touched
            /\ filled => Val(pricing.fill).execution_price =
                             R(IF buy THEN Max(stop, bar.open) ELSE Min(stop, bar.open))

\* a SELL STOP on a bar that opens below the stop: filled at the open
C27_Witness ==
    /\ Priced("STOP")
    /\ pricing.order.side = "SELL"
    /\ pricing.bar.open < Val(pricing.order.stop_price)
    /\ pricing.fill # None
    /\ Val(pricing.fill).execution_price = R(pricing.bar.open)


(**************************** end-of-day claims ****************************)
\* an apply_fill that finds a date change and squares positions off first
SquareOffStep ==
    /\ lastOp'.op = "apply_fill"
    /\ track_daily_pnl /\ square_off_eod
    /\ current_day # None
    /\ Date(fills'[lastOp'.arg].timestamp) # Val(current_day)
    /\ Held # {}

\* the sum over the positions held of (close - avg_price) x quantity, and of
\* quantity x close, at the given closing prices
SquareOffPnl(close) ==
    SumOver([s \in Held |-> calculate_pnl(positions[s].avg_price, close[s],
                                          positions[s].quantity)], Held)

SquareOffValue(close) ==
    SumOver([s \in Held |-> RMul(R(positions[s].quantity), close[s])], Held)

\* C21: with square_off_eod on, at a date change every position is closed at
\* the last mark cached for its symbol during the day that is ending, not at a
\* price of the new day: the realized P&L and the cash move by the amounts of a
\* close at those marks (the fill that follows finds every position flat).
C21_SquareOffAtLastMark ==
    [][SquareOffStep =>
          /\ realized_pnl' = RAdd(realized_pnl, SquareOffPnl(current_prices))
          /\ cash' = cash_after_fill(RAdd(cash, SquareOffValue(current_prices)),
                                     fills'[lastOp'.arg])]_vars

\* C22: the square-off of a position of quantity q and average entry e at the
\* close price c it uses adds (c - e) x q to realized_pnl and q x c to cash,
\* leaves the position with quantity 0 and avg_price 0, and charges nothing:
\* total_commission and num_trades move only by the fill that follows.
C22_SquareOffArithmetic ==
    [][SquareOffStep =>
          LET f == fills'[lastOp'.arg]
              flat == [positions[f.symbol] EXCEPT !.quantity = 0, !.avg_price = R(0)]
          IN  /\ realized_pnl' = RAdd(realized_pnl, SquareOffPnl(current_prices'))
              /\ cash' = cash_after_fill(RAdd(cash, SquareOffValue(current_prices')), f)
              /\ \A s \in Held \ {f.symbol} :
                     positions'[s].quantity = 0 /\ positions'[s].avg_price = R(0)
              /\ f.symbol \in Held => positions'[f.symbol] = update_position(flat, f)
              /\ f.realized_pnl = R(0)
              /\ total_commission' = RAdd(total_commission, f.commission)
              /\ num_trades' = num_trades + 1]_vars

\* a square-off of a position in a symbol other than the fill's, at a close
\* away from its entry, in a portfolio that pays commission
C22_Witness ==
    /\ lastOp.op = "apply_fill"
    /\ lastOp.ret # {}
    /\ fills[lastOp.arg].symbol \notin lastOp.ret
    /\ realized_pnl # R(0)
    /\ total_commission # R(0)
    /\ \A s \in lastOp.ret : positions[s].quantity = 0

\* C23: the realized P&L the square-off posts is part of the daily P&L: it is
\* in the daily P&L recorded for the day being closed, or it is carried in
\* daily_pnl into the new day.
C23_SquareOffInDailyPnl ==
    [][SquareOffStep =>
          LET f == fills'[lastOp'.arg]
              posted == SquareOffPnl(current_prices')
          IN  \/ daily_pnl_history'[Val(current_day)] = RAdd(daily_pnl, posted)
              \/ daily_pnl' = RSub(posted, f.commission)]_vars

\* C24: after the square-off the new day starts from the equity the portfolio
\* has once squared off: previous_day_value = daily_starting_value = the cash
\* of the now flat portfolio.
C24_NewDayStartsFromSquaredEquity ==
    [][SquareOffStep =>
          /\ previous_day_value' = daily_starting_value'
          /\ previous_day_value' = RAdd(cash, SquareOffValue(current_prices'))]_vars

(***************************** snapshot claims ******************************)
\* the mark of a symbol once the bar of the current time is processed: the
\* close of that bar for the bar's symbol, the cached mark for any other
MarkAfterBar(sym) ==
    IF sym = BarSymbol
    THEN R((CHOOSE b \in PriceBarsAt(now') : TRUE).close)
    ELSE current_prices'[sym]

C29_SnapshotsImmutable ==
    [][\A i \in DOMAIN snapshots :
          i \in DOMAIN snapshots' /\ snapshots'[i] = snapshots[i]]_vars

\* an earlier snapshot recorded an open position that the live portfolio has
\* since changed, and a later snapshot was taken after it
C29_Witness ==
    /\ Len(snapshots) >= 2
    /\ BarSymbol \in DOMAIN snapshots[1].positions
    /\ snapshots[1].positions[BarSymbol].quantity # 0
    /\ snapshots[1].positions[BarSymbol].unrealized_pnl # R(0)
    /\ positions[BarSymbol].quantity # snapshots[1].positions[BarSymbol].quantity
    /\ positions[BarSymbol].avg_price # snapshots[1].positions[BarSymbol].avg_price
    /\ positions[BarSymbol].unrealized_pnl # snapshots[1].positions[BarSymbol].unrealized_pnl

(************************** realized P&L claims ****************************)
\* the position a fill finds in apply_fill: the row of its symbol once the day
\* check (and its square-off) has run and a missing row has been created
PositionFound(fill) == apply_fill_prepare(PF, fill, None).positions[fill.symbol]

\* C30: a fill that opposes the position it finds realizes (fill.price -
\* avg_price) x close_qty, close_qty = min(|fill.qty|, |position.qty|) with the
\* position's sign; a fill on a flat position or on the position's side
\* realizes 0 and leaves the quantity-weighted average (|old_qty| x old_avg +
\* fill.qty x fill.price) / |new_qty| as avg_price; the value is stored in
\* fill.realized_pnl and added to the portfolio's realized_pnl.
C30_RealizedPnlPerFill ==
    [][lastOp'.op = "apply_fill" =>
          LET f == fills'[lastOp'.arg]
              found == PositionFound([f EXCEPT !.realized_pnl = R(0)])
              old_qty == found.quantity
              opposing == \/ (old_qty > 0 /\ f.side = "SELL")
                          \/ (old_qty < 0 /\ f.side = "BUY")
              close_qty == IF f.quantity < Abs(old_qty) THEN f.quantity ELSE Abs(old_qty)
              signed_close_qty == IF old_qty > 0 THEN close_qty ELSE -close_qty
              new == positions'[f.symbol]
          IN  /\ opposing =>
                     f.realized_pnl = RMul(RSub(f.price, found.avg_price),
                                           R(signed_close_qty))
              /\ ~opposing =>
                     /\ f.realized_pnl = R(0)
                     /\ new.avg_price =
                            RDiv(RAdd(RMul(R(Abs(old_qty)), found.avg_price),
                                      RMul(R(f.quantity), f.price)),
                                 R(Abs(new.quantity)))
              /\ realized_pnl' =
                     RAdd(apply_fill_prepare(PF, [f EXCEPT !.realized_pnl = R(0)],
                                             None).realized_pnl,
                          f.realized_pnl)]_vars

\* a SELL that found a long position, realized a non-zero P&L on the part it
\* closed and left the position short
C30_Witness ==
    /\ lastOp.op = "apply_fill"
    /\ fills[lastOp.arg].side = "SELL"
    /\ fills[lastOp.arg].realized_pnl # R(0)
    /\ positions[fills[lastOp.arg].symbol].quantity < 0

(************************ position invariant claims *************************)
\* C31: in the snapshot create_snapshot appends, every recorded position has
\* unrealized_pnl = (mark - avg_price) x quantity at the mark cached for its
\* symbol; a position closed to quantity 0 therefore has unrealized_pnl = 0.
C31_SnapshotPositionsMarked ==
    [][lastOp'.op = "create_snapshot" =>
          LET s == snapshots'[Len(snapshots')] IN
          \A sym \in DOMAIN s.positions :
              s.positions[sym].unrealized_pnl =
                  RMul(RSub(current_prices'[sym], s.positions[sym].avg_price),
                       R(s.positions[sym].quantity))]_vars

\* C32: in every state of the portfolio, after any fills, mark-to-market
\* updates, day rollovers and square-offs, a position with quantity 0 has
\* avg_price 0.
C32_FlatPositionHasZeroAvgPrice ==
    \A sym \in DOMAIN positions :
        positions[sym].quantity = 0 => positions[sym].avg_price = R(0)

\* a fill has just closed a position that was opened at a non-zero price
C32_Witness ==
    /\ lastOp.op = "apply_fill"
    /\ lastOp.ret = {}
    /\ Len(fills) >= 2
    /\ fills[lastOp.arg].realized_pnl # R(0)
    /\ positions[fills[lastOp.arg].symbol].quantity = 0

(************************* signal consumption claims ************************)
\* C33: an accepted signal is consumed exactly once: a drain at time T returns
\* only signals that were queued and takes them out of the queue, and it
\* returns every queued signal stamped at or before T, so a signal is released
\* by the first drain at a time at or after its timestamp.
C33_SignalConsumedOnceAtFirstDrain ==
    [][DrainStep =>
          /\ \A s \in Range(released') :
                 s \in Range(signal_queue) /\ s \notin Range(signal_queue')
          /\ \A s \in Range(signal_queue) :
                 s.timestamp <= lastOp'.arg => s \in Range(released')
          /\ Len(released') + Len(signal_queue') = Len(signal_queue)]_vars

(**************************** desired size claims **************************)
\* a call of calculate_position_size with the fraction method, no explicit
\* signal size, and a positive price and equity
FractionSized ==
    /\ lastOp.op = "calculate_position_size"
    /\ sizing_method = "fraction"
    /\ desired.signal_size = None
    /\ RLt(R(0), desired.price) /\ RLt(R(0), desired.portfolio_value)

\* floor(equity x max_position_pct / price)
FractionFloor == RFloor(RDiv(RMul(desired.portfolio_value, max_position_pct), desired.price))

\* C34: with the fraction method and no explicit signal size, the desired size
\* for a price > 0 and an equity > 0 is exactly floor(equity x max_position_pct
\* / price), whatever min_position_size is and also when the floor is 0.
C34_FractionSizeIsFloor ==
    FractionSized => Val(desired.size) = FractionFloor

\* C34 as amended: the desired size is the larger of that floor and
\* min_position_size.
C34_FractionSizeIsFloorOrMinimum ==
    FractionSized =>
        Val(desired.size) = IF FractionFloor < min_position_size
                            THEN min_position_size ELSE FractionFloor

\* a fraction sizing whose floor is 0 with min_position_size 1: the size is 1
C34_Witness ==
    /\ FractionSized
    /\ FractionFloor = 0
    /\ min_position_size = 1
    /\ Val(desired.size) = 1

C36_ExecutionPriceInRangeAndWithinLimit ==
    (lastOp.op = "simulate_fill" /\ pricing.fill # None) =>
        LET order == pricing.order
            bar == pricing.bar
            price == Val(pricing.fill).execution_price
        IN  /\ RLe(R(bar.low), price) /\ RLe(price, R(bar.high))
            /\ order.order_type \in {"LIMIT", "STOP_LIMIT"} =>
                   IF order.side = "BUY"
                   THEN RLe(price, R(Val(order.limit_price)))
                   ELSE RLe(R(Val(order.limit_price)), price)

\* a BUY STOP_LIMIT order whose stop lies above its limit, triggered and filled
\* at the limit in a bar that opened above the limit
C36_Witness ==
    /\ lastOp.op = "simulate_fill"
    /\ pricing.order.order_type = "STOP_LIMIT"
    /\ pricing.order.side = "BUY"
    /\ Val(pricing.order.stop_price) > Val(pricing.order.limit_price)
    /\ pricing.bar.open > Val(pricing.order.limit_price)
    /\ pricing.fill # None
    /\ Val(pricing.fill).execution_price = R(Val(pricing.order.limit_price))

(************************** terminal order claims **************************)
\* C37: FILLED and CANCELLED are absorbing: whatever is called next
\* (process_bar, cancel_order, submit_order), an order in one of these states
\* keeps its status, filled_quantity and avg_fill_price, is not in the active
\* container, and gets no further fill.
C37_TerminalOrdersAbsorbing ==
    [][\A id \in SubmittedIds :
          orders[id].status \in {"FILLED", "CANCELLED"} =>
              /\ orders'[id].status = orders[id].status
              /\ orders'[id].filled_quantity = orders[id].filled_quantity
              /\ orders'[id].avg_fill_price = orders[id].avg_fill_price
              /\ id \notin Range(active_orders')
              /\ {i \in DOMAIN fills' : fills'[i].order_id = id} = FillsOf(id)]_vars

\* a bar has just filled an order while an order cancelled earlier, which the
\* same bar would have filled, stays unfilled, and a cancel of the filled
\* order's id is then refused
C37_Witness ==
    /\ lastOp.op = "cancel_order"
    /\ lastOp.ret = FALSE
    /\ lastOp.arg \in SubmittedIds
    /\ orders[lastOp.arg].status = "FILLED"
    /\ \E b \in SubmittedIds :
          /\ orders[b].status = "CANCELLED"
          /\ orders[b].order_type = "MARKET"
          /\ orders[b].timestamp < Val(orders[lastOp.arg].filled_at)
          /\ FillsOf(b) = {}

(****************************** frame claims *******************************)
\* C38: a mark-to-market (update_market_prices, update_from_bar) and a
\* create_snapshot leave cash, every position's quantity and avg_price,
\* realized_pnl, total_commission, num_trades and daily_pnl as they were.
C38_MarkAndSnapshotFrame ==
    [][lastOp'.op \in {"mark_to_market", "create_snapshot"} =>
          /\ cash' = cash
          /\ DOMAIN positions' = DOMAIN positions
          /\ \A sym \in DOMAIN positions :
                 /\ positions'[sym].quantity = positions[sym].quantity
                 /\ positions'[sym].avg_price = positions[sym].avg_price
          /\ realized_pnl' = realized_pnl
          /\ total_commission' = total_commission
          /\ num_trades' = num_trades
          /\ daily_pnl' = daily_pnl]_vars

\* a snapshot just taken of a portfolio with an open position that the bar's
\* mark-to-market has moved away from its entry, with daily P&L booked
C38_Witness ==
    /\ lastOp.op = "create_snapshot"
    /\ BarSymbol \in DOMAIN positions
    /\ positions[BarSymbol].quantity # 0
    /\ unrealized_pnl # R(0)
    /\ daily_pnl # R(0)
    /\ snapshots[Len(snapshots)].unrealized_pnl = unrealized_pnl

(***************************** day-end claims ******************************)
\* the engine has just fired day_end for a date
DayEndFired ==
    /\ Len(events') = Len(events) + 1
    /\ events'[Len(events')].kind = "day_end"

C40_PositionWithinCaps ==
    \A sym \in DOMAIN positions :
        LET notional == RMul(R(Abs(positions[sym].quantity)), sizing.price) IN
        /\ RLe(notional, RMul(sizing.portfolio_value, max_position_pct))
        /\ RLe(notional, RMul(max_portfolio_leverage, sizing.portfolio_value))

==========================================================================
